---- MODULE Spec2Model ----
(***************************************************************************)
(* Folder tree plugin: the Persistence Adapter (FolderTreePersistence),    *)
(* the Tree Store (FolderTreeCore) and the renderer's query-block          *)
(* synchronization, as a state machine over the host's stored blob and the *)
(* store's in-memory snapshot.                                             *)
(***************************************************************************)
EXTENDS Integers, Sequences, FiniteSets, TLC

VARIABLES
    blob,     \* the string held by the host store under ("folder-tree", "data")
    data,     \* FolderTreeCore.data: the in-memory snapshot (or null)
    nextId,   \* number of ids generateId has handed out so far, plus one
    calls,    \* number of mutations issued so far
    clock,    \* the host clock read by new Date()
    last,     \* the last call: its name, arguments and result
    heard,    \* what the change listeners were handed during the last call
    kept,     \* load/save/load round trip: what the first loadData returned
    pc        \* load/save/load round trip: the next step

vars == <<blob, data, nextId, calls, clock, last, heard, kept, pc>>

(***************************************************************************)
(* Bounds                                                                  *)
(***************************************************************************)
MaxItems == 3
MaxCalls == 4
MaxClock == 1
MaxIndex == 1
\* how far below 0 an insertIndex goes; -1 stands for none given (NoIndex)
MaxBelow == 2
MaxNameLen == 4
MaxBlocks == 2
MaxResults == 2
MaxSyncItems == 4

Null == 0
NoIndex == -1
Types == {"notebook", "folder", "document"}

(***************************************************************************)
(* Small helpers                                                           *)
(***************************************************************************)
SetMax(S) == CHOOSE x \in S : \A y \in S : y <= x
SetMin(S) == CHOOSE x \in S : \A y \in S : x <= y

Range(s) == {s[i] : i \in DOMAIN s}

\* Array.prototype.find(i => i.id === id), as an index (0: not found)
FindIdx(items, id) ==
    IF \E i \in DOMAIN items : items[i].id = id
    THEN SetMin({i \in DOMAIN items : items[i].id = id})
    ELSE 0

\* Array.prototype.filter(x => x !== id) on a list of ids
Without(ids, id) == SelectSeq(ids, LAMBDA x : x # id)

\* splice(indexOf(id), 1) on a list that holds id
RemoveFirst(ids, id) ==
    LET k == SetMin({i \in DOMAIN ids : ids[i] = id})
    IN SubSeq(ids, 1, k - 1) \o SubSeq(ids, k + 1, Len(ids))

\* Array.prototype.splice(k, 0, id), k a 0-based position
InsertAt(ids, k, id) == SubSeq(ids, 1, k) \o <<id>> \o SubSeq(ids, k + 1, Len(ids))

\* Array.prototype.filter(i => i.id !== id) on the items
RemoveItem(items, id) == SelectSeq(items, LAMBDA it : it.id # id)

(***************************************************************************)
(* FolderTreePersistence                                                   *)
(*                                                                         *)
(* An item is a record [id, name, blockId, parentId, order, type, kids,    *)
(* children, modified]. kids says what the children property is: "list"    *)
(* (an array, held in children), "absent" (no such property) or            *)
(* "undefined" (the property createItem writes for a document).            *)
(***************************************************************************)
DefaultSettings ==
    [expandedItems |-> <<>>, selectedItems |-> <<>>,
     closed |-> "absent", closedNotebooks |-> <<>>]

NullData == [kind |-> "null"]
Tree(items, settings) == [kind |-> "tree", items |-> items, settings |-> settings]

getDefaultData == Tree(<<>>, DefaultSettings)

AbsentBlob == [kind |-> "absent"]
GarbageBlob == [kind |-> "garbage"]

\* a stringify that also drops an empty children list
StringifyItem_DropsEmpty(it) ==
    [it EXCEPT !.kids = IF @ = "undefined" \/ it.children = <<>> THEN "absent" ELSE @]

\* JSON.stringify drops a property whose value is undefined
StringifyItem(it) == [it EXCEPT !.kids = IF @ = "undefined" THEN "absent" ELSE @]

Stringify(d) ==
    [kind |-> "json", hasSettings |-> TRUE,
     items |-> [i \in DOMAIN d.items |-> StringifyItem(d.items[i])],
     settings |-> d.settings]

\* JSON.parse of a blob Stringify wrote (or of one without a settings key)
Parse(b) == Tree(b.items, b.settings)

\* a blob of the old schema is [kind |-> "legacy", notebooks, documents,
\* hasSettings, settings]: a notebook is [id, name, order, docs, documents,
\* modified], docs saying whether it has a documents list; a document is a
\* record like an item, its type "absent" when it has none; the settings are
\* [expandedNotebooks, expandedFolders, selectedItems]
MigratedNotebook(notebook) ==
    [id |-> notebook.id, name |-> notebook.name, blockId |-> Null, parentId |-> Null,
     order |-> notebook.order, type |-> "notebook", kids |-> "list",
     children |-> IF notebook.docs = "list" THEN notebook.documents ELSE <<>>,
     modified |-> notebook.modified]

\* a copy that leaves a document without a type as it is
MigratedDocument_Untyped(doc) == doc

\* "{...doc, type: doc.type || 'document'}"
MigratedDocument(doc) ==
    [doc EXCEPT !.type = IF @ = "absent" THEN "document" ELSE @]

MigratedSettings(b) ==
    IF b.hasSettings
    THEN [expandedItems |-> b.settings.expandedNotebooks \o b.settings.expandedFolders,
          selectedItems |-> b.settings.selectedItems,
          closed |-> "absent", closedNotebooks |-> <<>>]
    ELSE [expandedItems |-> <<>>, selectedItems |-> <<>>,
          closed |-> "absent", closedNotebooks |-> <<>>]

\* the tree migrateFromOldFormat builds; the saveData it starts before it
\* returns is a step of the load (MigrationSave)
migrateFromOldFormat(b) ==
    Tree([k \in DOMAIN b.notebooks |-> MigratedNotebook(b.notebooks[k])]
             \o [k \in DOMAIN b.documents |-> MigratedDocument(b.documents[k])],
         MigratedSettings(b))

loadData(b) ==
    IF b.kind = "absent" THEN getDefaultData
    ELSE IF b.kind = "garbage" THEN getDefaultData
    ELSE IF b.kind = "legacy" THEN migrateFromOldFormat(b)
    ELSE IF ~b.hasSettings
         THEN Tree(b.items, [expandedItems |-> <<>>, selectedItems |-> <<>>,
                             closed |-> "absent", closedNotebooks |-> <<>>])
         ELSE Parse(b)

\* saveData stamps the items of the object it is given, then writes it
Stamp(d, now) ==
    [d EXCEPT !.items = [i \in DOMAIN @ |-> [@[i] EXCEPT !.modified = now]]]

WriteStamped(sd) == [ok |-> TRUE, data |-> sd, blob |-> Stringify(sd)]

saveData(d, now) == WriteStamped(Stamp(d, now))

\* what a primitive returns after its save: the blob now stored and the flag
Saved(s) == [blob |-> s.blob, ok |-> s.ok]
NotSaved(b) == [blob |-> b, ok |-> FALSE]

SaveItems(d, items, now) == Saved(saveData([d EXCEPT !.items = items], now))

getNextOrder(items, parentId) ==
    SetMax({items[i].order : i \in {j \in DOMAIN items : items[j].parentId = parentId}}
           \cup {-1}) + 1

IsContainer(it) == it.type \in {"folder", "notebook"}

\* parent.children.push(id), after "if (!parent.children) parent.children = []"
PushChild(it, id) ==
    [it EXCEPT !.kids = "list",
               !.children = IF it.kids = "list" THEN Append(@, id) ELSE <<id>>]

\* rank of position i in a stable sort of the positions S by order
StableRank(items, S, i) ==
    Cardinality({j \in S : \/ items[j].order < items[i].order
                           \/ (items[j].order = items[i].order /\ j < i)})

SetOrderAt(items, x, order) ==
    IF x # 0 THEN [items EXCEPT ![x].order = order] ELSE items

RECURSIVE NumberIds(_, _, _)
\* ids.forEach((id, index) => { item = find(id); if (item) item.order = index }),
\* from position k on
NumberIds(items, ids, k) ==
    IF k > Len(ids) THEN items
    ELSE NumberIds(SetOrderAt(items, FindIdx(items, ids[k]), k - 1), ids, k + 1)

NumberChildrenOf(items, p) ==
    IF p # 0 /\ items[p].kids = "list"
    THEN NumberIds(items, items[p].children, 1)
    ELSE items

NumberRoots(items, roots) ==
    [i \in DOMAIN items |->
        IF i \in roots
        THEN [items[i] EXCEPT !.order = StableRank(items, roots, i)]
        ELSE items[i]]

updateItemOrder(items, parentId) ==
    IF parentId # Null
    THEN NumberChildrenOf(items, FindIdx(items, parentId))
    ELSE NumberRoots(items, {i \in DOMAIN items : items[i].parentId = Null})

NewItem(items, name, type, blockId, parentId, id, now) ==
    [id |-> id, name |-> name, blockId |-> blockId, parentId |-> parentId,
     order |-> getNextOrder(items, parentId), type |-> type,
     kids |-> IF type \in {"folder", "notebook"} THEN "list" ELSE "undefined",
     children |-> <<>>, modified |-> now]

\* "if (parent && (parent.type === 'folder' || parent.type === 'notebook'))
\*  parent.children.push(id)", p the parent's position
LinkChild(items, p, id) ==
    IF p # 0 /\ IsContainer(items[p])
    THEN [items EXCEPT ![p] = PushChild(@, id)]
    ELSE items

CreateIn(items, item) ==
    LinkChild(Append(items, item),
              IF item.parentId = Null THEN 0 ELSE FindIdx(items, item.parentId),
              item.id)

CreateSaved(s, id) == [blob |-> s.blob, item |-> IF s.ok THEN id ELSE Null]

CreateLoaded(d, name, type, blockId, parentId, id, now) ==
    CreateSaved(
        saveData([d EXCEPT !.items =
                      CreateIn(@, NewItem(@, name, type, blockId, parentId, id, now))],
                 now),
        id)

P_createItem(b, name, type, blockId, parentId, id, now) ==
    CreateLoaded(loadData(b), name, type, blockId, parentId, id, now)

\* "if (parent && parent.children) parent.children = parent.children.filter(...)"
UnlinkChild(items, p, id) ==
    IF p # 0 /\ items[p].kids = "list"
    THEN [items EXCEPT ![p].children = Without(@, id)]
    ELSE items

UnlinkFrom(items, parentId, id) ==
    UnlinkChild(items, IF parentId = Null THEN 0 ELSE FindIdx(items, parentId), id)

Kept(items) == [ovf |-> FALSE, items |-> items]
Overflow(items) == [ovf |-> TRUE, items |-> items]

RECURSIVE deleteRecursively(_, _, _)
RECURSIVE DeleteChildren(_, _, _, _)
RECURSIVE DeleteFound(_, _, _, _)

\* the item itself, once its children are gone
DeleteSelf(r, it) ==
    IF r.ovf THEN r
    ELSE Kept(RemoveItem(UnlinkFrom(r.items, it.parentId, it.id), it.id))

DeleteFound(items, it, id, stack) ==
    DeleteSelf(IF it.kids = "list" /\ Len(it.children) > 0
               THEN DeleteChildren(Kept(items), it.children, 1, stack \cup {id})
               ELSE Kept(items),
               it)

\* [ovf, items]: ovf when the recursion meets an id already being deleted,
\* so never ends and the call stack overflows
deleteRecursively(items, id, stack) ==
    IF FindIdx(items, id) = 0 THEN Kept(items)
    ELSE IF id \in stack THEN Overflow(items)
    ELSE DeleteFound(items, items[FindIdx(items, id)], id, stack)

DeleteChildren(r, ids, k, stack) ==
    IF r.ovf \/ k > Len(ids) THEN r
    ELSE DeleteChildren(deleteRecursively(r.items, ids[k], stack), ids, k + 1, stack)

DeleteDone(b, d, r, now) ==
    IF r.ovf THEN NotSaved(b) ELSE SaveItems(d, r.items, now)

DeleteLoaded(b, d, id, now) ==
    DeleteDone(b, d, deleteRecursively(d.items, id, {}), now)

P_deleteItem(b, id, now) == DeleteLoaded(b, loadData(b), id, now)

RenameFound(b, d, x, newName, now) ==
    IF x = 0 THEN NotSaved(b)
    ELSE Saved(saveData([d EXCEPT !.items[x].name = newName,
                                  !.items[x].modified = now], now))

RenameLoaded(b, d, id, newName, now) ==
    RenameFound(b, d, FindIdx(d.items, id), newName, now)

P_renameItem(b, id, newName, now) == RenameLoaded(b, loadData(b), id, newName, now)

SetParent(items, x, newParentId) == [items EXCEPT ![x].parentId = newParentId]

\* the new parent's children, with id spliced in at insertIndex or pushed
Spliced(kids, insertIndex, id) ==
    IF insertIndex >= 0 /\ insertIndex <= Len(kids)
    THEN InsertAt(kids, insertIndex, id)
    ELSE Append(kids, id)

AttachAt(items, np, insertIndex, id) ==
    IF np # 0 /\ IsContainer(items[np])
    THEN [items EXCEPT ![np].kids = "list",
                       ![np].children =
                           Spliced(IF items[np].kids = "list" THEN @ ELSE <<>>,
                                   insertIndex, id)]
    ELSE items

Attach(items, newParentId, insertIndex, id) ==
    AttachAt(items, IF newParentId = Null THEN 0 ELSE FindIdx(items, newParentId),
             insertIndex, id)

MoveIn(items, x, id, newParentId, insertIndex) ==
    updateItemOrder(
        Attach(SetParent(UnlinkFrom(items, items[x].parentId, id), x, newParentId),
               newParentId, insertIndex, id),
        newParentId)

MoveFound(b, d, x, id, newParentId, insertIndex, now) ==
    IF x = 0 THEN NotSaved(b)
    ELSE SaveItems(d, MoveIn(d.items, x, id, newParentId, insertIndex), now)

MoveLoaded(b, d, id, newParentId, insertIndex, now) ==
    MoveFound(b, d, FindIdx(d.items, id), id, newParentId, insertIndex, now)

P_moveItem(b, id, newParentId, insertIndex, now) ==
    MoveLoaded(b, loadData(b), id, newParentId, insertIndex, now)

\* "if (parent) parent.children = [...itemIds]", p the parent's position
SetChildren(items, p, itemIds) ==
    IF p # 0
    THEN [items EXCEPT ![p].kids = "list", ![p].children = itemIds]
    ELSE items

ReorderIn(items, parentId, itemIds) ==
    NumberIds(SetChildren(items,
                          IF parentId = Null THEN 0 ELSE FindIdx(items, parentId),
                          itemIds),
              itemIds, 1)

ReorderLoaded(d, parentId, itemIds, now) ==
    SaveItems(d, ReorderIn(d.items, parentId, itemIds), now)

P_reorderItems(b, parentId, itemIds, now) ==
    ReorderLoaded(loadData(b), parentId, itemIds, now)

\* data.settings = { ...data.settings, ...settings }: every key the given
\* settings carry replaces the stored one
MergeSettings(stored, given) ==
    [expandedItems |-> given.expandedItems,
     selectedItems |-> given.selectedItems,
     closed |-> IF given.closed = "list" THEN "list" ELSE stored.closed,
     closedNotebooks |-> IF given.closed = "list" THEN given.closedNotebooks
                         ELSE stored.closedNotebooks]

SettingsLoaded(d, settings, now) ==
    Saved(saveData([d EXCEPT !.settings = MergeSettings(@, settings)], now))

P_saveSettings(b, settings, now) == SettingsLoaded(loadData(b), settings, now)

(***************************************************************************)
(* FolderTreeCore: queries on the snapshot                                 *)
(***************************************************************************)
\* the positions S of items, as a list sorted by order (Array.prototype.sort
\* is stable)
SortedByOrder(items, S) ==
    [k \in 1..Cardinality(S) |->
        items[CHOOSE i \in S : StableRank(items, S, i) = k - 1]]

getItemById(d, id) == IF d.kind = "null" THEN 0 ELSE FindIdx(d.items, id)

\* the rows read off the parent's children list, not off the parentId links
getItemChildren_FromList(d, itemId) ==
    IF d.kind = "null" \/ FindIdx(d.items, itemId) = 0 THEN <<>>
    ELSE LET ch == SelectSeq(d.items[FindIdx(d.items, itemId)].children,
                             LAMBDA c : FindIdx(d.items, c) # 0)
         IN [j \in DOMAIN ch |-> d.items[FindIdx(d.items, ch[j])]]

getItemChildren(d, itemId) ==
    IF d.kind = "null" THEN <<>>
    ELSE SortedByOrder(d.items, {i \in DOMAIN d.items : d.items[i].parentId = itemId})

getClosedNotebooks(d) ==
    IF d.kind = "null" \/ d.settings.closed # "list" THEN <<>>
    ELSE d.settings.closedNotebooks

Visible(d, closedIds) ==
    SortedByOrder(d.items, {i \in DOMAIN d.items : /\ d.items[i].parentId = Null
                                                   /\ d.items[i].id \notin closedIds})

getRootItems(d) ==
    IF d.kind = "null" THEN <<>> ELSE Visible(d, Range(getClosedNotebooks(d)))

IdsOf(items) == [i \in DOMAIN items |-> items[i].id]

(***************************************************************************)
(* FolderTreeCore: mutations. Each yields [data, blob, ret, heard]: the    *)
(* snapshot and the stored blob when the call returns, its result, and     *)
(* what notifyDataChange handed to the listeners.                          *)
(***************************************************************************)
\* results are written "true", "false", "item", "null" or "throws"
Bool(x) == IF x THEN "true" ELSE "false"

Outcome(d, b, ret, h) == [data |-> d, blob |-> b, ret |-> ret, heard |-> h]

\* the call returns without touching the snapshot; b is the blob now stored
Quiet(d, b, ret) == Outcome(d, b, ret, <<>>)

\* notifyDataChange: the listeners are handed the snapshot d
Notified(d, b, ret) == Outcome(d, b, ret, <<[snap |-> d, store |-> b]>>)

\* "this.data = await this.persistence.loadData(); this.notifyDataChange()"
ReloadNotify(b, ret) == Notified(loadData(b), b, ret)

\* FolderTreeCore.saveData, s what persistence.saveData returned
CoreSaved(s, ret, retFailed) ==
    IF s.ok THEN Notified(s.data, s.blob, ret) ELSE Quiet(s.data, s.blob, retFailed)

\* deleteItem and renameItem return the primitive's flag whatever this save did
CoreSave(d, now, ret) == CoreSaved(saveData(d, now), ret, ret)

AfterCreate(d, r) ==
    IF r.item # Null /\ d.kind # "null"
    THEN ReloadNotify(r.blob, "item")
    ELSE Quiet(d, r.blob, IF r.item # Null THEN "item" ELSE "null")

C_createItem(d, b, name, type, blockId, parentId, id, now) ==
    AfterCreate(d, P_createItem(b, name, type, blockId, parentId, id, now))

AfterDelete(d, r, now) ==
    IF r.ok /\ d.kind # "null"
    THEN CoreSave(loadData(r.blob), now, "true")
    ELSE Quiet(d, r.blob, Bool(r.ok))

C_deleteItem(d, b, id, now) == AfterDelete(d, P_deleteItem(b, id, now), now)

\* "const item = this.data.items.find(...); if (item) { item.name = newName; ... }"
PatchName(d, x, newName, now) ==
    IF x # 0
    THEN [d EXCEPT !.items[x].name = newName, !.items[x].modified = now]
    ELSE d

AfterRename(d, r, id, newName, now) ==
    IF r.ok
    THEN CoreSave(PatchName(d, FindIdx(d.items, id), newName, now), now, "true")
    ELSE Quiet(d, r.blob, "false")

C_renameItem(d, b, id, newName, now) ==
    IF d.kind = "null" THEN Quiet(d, b, "false")
    ELSE AfterRename(d, P_renameItem(b, id, newName, now), id, newName, now)

\* a moveItem that notifies without reloading the snapshot
AfterMove_NoReload(d, r) ==
    IF r.ok /\ d.kind # "null"
    THEN Notified(d, r.blob, "true")
    ELSE Quiet(d, r.blob, Bool(r.ok))

AfterMove(d, r) ==
    IF r.ok /\ d.kind # "null"
    THEN ReloadNotify(r.blob, "true")
    ELSE Quiet(d, r.blob, Bool(r.ok))

C_moveItem(d, b, id, newParentId, insertIndex, now) ==
    AfterMove(d, P_moveItem(b, id, newParentId, insertIndex, now))

AfterReorder(d, r) ==
    IF r.ok THEN ReloadNotify(r.blob, "true") ELSE Quiet(d, r.blob, "false")

C_reorderItems(d, b, parentId, itemIds, now) ==
    IF d.kind = "null" THEN Quiet(d, b, "false")
    ELSE AfterReorder(d, P_reorderItems(b, parentId, itemIds, now))

\* "item.type = 'folder'; if (!item.children) item.children = []"
Promote(d, x) ==
    [d EXCEPT !.items[x].type = "folder",
              !.items[x].kids = "list",
              !.items[x].children = IF d.items[x].kids = "list" THEN @ ELSE <<>>]

EnsureFound(d, b, x, now) ==
    IF x = 0 THEN Quiet(d, b, "false")
    ELSE CoreSaved(saveData(Promote(d, x), now), "true", "false")

C_ensureFolder(d, b, id, now) ==
    IF d.kind = "null" THEN Quiet(d, b, "false")
    ELSE EnsureFound(d, b, FindIdx(d.items, id), now)

\* the settings calls patch the snapshot first and leave the patch in place
SettingsSaved(d1, r) == Quiet(d1, r.blob, Bool(r.ok))

SaveSnapshotSettings(d1, b, now) ==
    SettingsSaved(d1, P_saveSettings(b, d1.settings, now))

C_setExpandedState(d, b, ids, now) ==
    IF d.kind = "null" THEN Quiet(d, b, "false")
    ELSE SaveSnapshotSettings([d EXCEPT !.settings.expandedItems = ids], b, now)

C_setSelectedItems(d, b, ids, now) ==
    IF d.kind = "null" THEN Quiet(d, b, "false")
    ELSE SaveSnapshotSettings([d EXCEPT !.settings.selectedItems = ids], b, now)

ClosedSaved(d1, r) ==
    IF r.ok THEN Notified(d1, r.blob, "true") ELSE Quiet(d1, r.blob, "false")

SaveClosed(d1, b, now) == ClosedSaved(d1, P_saveSettings(b, d1.settings, now))

\* "throws": settings.closedNotebooks is undefined and the call reads
\* .includes of it
CloseFound(d, b, x, id, now) ==
    IF x = 0 \/ d.items[x].type # "notebook" THEN Quiet(d, b, "false")
    ELSE IF d.settings.closed # "list" THEN Quiet(d, b, "throws")
    ELSE IF id \in Range(d.settings.closedNotebooks) THEN Quiet(d, b, "true")
    ELSE SaveClosed([d EXCEPT !.settings.closedNotebooks = Append(@, id)], b, now)

C_closeNotebook(d, b, id, now) ==
    IF d.kind = "null" THEN Quiet(d, b, "false")
    ELSE CloseFound(d, b, getItemById(d, id), id, now)

\* "throws": settings.closedNotebooks is undefined and the call reads
\* .indexOf of it
C_restoreNotebook(d, b, id, now) ==
    IF d.kind = "null" THEN Quiet(d, b, "false")
    ELSE IF d.settings.closed # "list" THEN Quiet(d, b, "throws")
    ELSE IF id \notin Range(d.settings.closedNotebooks) THEN Quiet(d, b, "true")
    ELSE SaveClosed([d EXCEPT !.settings.closedNotebooks = RemoveFirst(@, id)], b, now)

(***************************************************************************)
(* FolderTreeCore.naturalSortChildren. A name is a list of one-character   *)
(* strings.                                                                *)
(***************************************************************************)
Digits == {"0", "1", "2", "3", "4", "5", "6", "7", "8", "9"}

\* UTF-16 code units of the characters the names are written in
CharCode ==
    (" " :> 32) @@ ("0" :> 48) @@ ("1" :> 49) @@ ("2" :> 50) @@
    ("D" :> 68) @@ ("a" :> 97) @@ ("b" :> 98) @@ ("c" :> 99) @@ ("d" :> 100) @@
    ("o" :> 111)

DigitValue == ("0" :> 0) @@ ("1" :> 1) @@ ("2" :> 2)

\* String.prototype.toLowerCase
toLowerCase(name) == [i \in DOMAIN name |-> IF name[i] = "D" THEN "d" ELSE name[i]]

\* length of the leading run of name: digits only, or non-digits only
RunLength(name) ==
    SetMax({k \in 1..Len(name) :
               \A i \in 1..k : (name[i] \in Digits) = (name[1] \in Digits)})

RECURSIVE Parts(_)
\* name.match(/(\d+|\D+)/g) || []
Parts(name) ==
    IF name = <<>> THEN <<>>
    ELSE <<SubSeq(name, 1, RunLength(name))>>
         \o Parts(SubSeq(name, RunLength(name) + 1, Len(name)))

RECURSIVE DecimalValue(_)
DecimalValue(part) ==
    IF part = <<>> THEN 0
    ELSE 10 * DecimalValue(SubSeq(part, 1, Len(part) - 1)) + DigitValue[part[Len(part)]]

\* Number(part) of a run: the value of a digit run, 0 for a run of white
\* space only, NaN for any other run
ToNumber(part) ==
    IF \A i \in DOMAIN part : part[i] \in Digits
    THEN [nan |-> FALSE, val |-> DecimalValue(part)]
    ELSE IF \A i \in DOMAIN part : part[i] = " "
    THEN [nan |-> FALSE, val |-> 0]
    ELSE [nan |-> TRUE, val |-> 0]

\* a < b on strings: code unit by code unit, a proper prefix first
StringLess(a, b) ==
    \E k \in 1..(Len(b)) :
        /\ \A i \in 1..(k - 1) : i <= Len(a) /\ a[i] = b[i]
        /\ \/ k = Len(a) + 1
           \/ k <= Len(a) /\ CharCode[a[k]] < CharCode[b[k]]

\* the body of the comparator's loop for one pair of parts: 0 to go on
ComparePart(aPart, bPart, aNum, bNum) ==
    IF ~aNum.nan /\ ~bNum.nan
    THEN aNum.val - bNum.val
    ELSE IF aPart # bPart
         THEN (IF StringLess(aPart, bPart) THEN -1 ELSE 1)
         ELSE 0

RECURSIVE CompareParts(_, _, _)
CompareParts(aParts, bParts, i) ==
    IF i > Len(aParts) \/ i > Len(bParts) THEN Len(aParts) - Len(bParts)
    ELSE IF ComparePart(aParts[i], bParts[i], ToNumber(aParts[i]), ToNumber(bParts[i])) # 0
         THEN ComparePart(aParts[i], bParts[i], ToNumber(aParts[i]), ToNumber(bParts[i]))
         ELSE CompareParts(aParts, bParts, i + 1)

naturalCompare(a, b) == CompareParts(Parts(toLowerCase(a)), Parts(toLowerCase(b)), 1)

Orderings(n) == {f \in [1..n -> 1..n] : \A i, j \in 1..n : i # j => f[i] # f[j]}

\* f lists the positions of children as a stable sort by name leaves them
IsStableSort(children, f) ==
    \A i, j \in DOMAIN children :
        i < j => \/ naturalCompare(children[f[i]].name, children[f[j]].name) < 0
                 \/ /\ naturalCompare(children[f[i]].name, children[f[j]].name) = 0
                    /\ f[i] < f[j]

\* [...children].sort((a, b) => naturalCompare(a.name, b.name)): the stable
\* sort when the comparator orders the names consistently; a comparator that
\* does not leaves the order to the engine
SortOutcomes(children) ==
    IF \E f \in Orderings(Len(children)) : IsStableSort(children, f)
    THEN {f \in Orderings(Len(children)) : IsStableSort(children, f)}
    ELSE Orderings(Len(children))

SortedIds(children, f) == [k \in DOMAIN children |-> children[f[k]].id]

ChildrenToSort(d, parentId) ==
    IF parentId = Null THEN getRootItems(d) ELSE getItemChildren(d, parentId)

\* f: the order the sort left the children in
SortChildren(d, b, parentId, children, f, now) ==
    IF Len(children) = 0 THEN Quiet(d, b, "true")
    ELSE C_reorderItems(d, b, parentId, SortedIds(children, f), now)

C_naturalSortChildren(d, b, parentId, f, now) ==
    IF d.kind = "null" THEN Quiet(d, b, "false")
    ELSE SortChildren(d, b, parentId, ChildrenToSort(d, parentId), f, now)

(***************************************************************************)
(* The store as a state machine: one action per public call, each awaited  *)
(* before the next is issued.                                              *)
(***************************************************************************)
NameA == <<"a">>
NameB == <<"b">>

\* ids a caller can hold: every id generateId has handed out so far
KnownIds == 1..(nextId - 1)

\* every list of distinct known ids
RECURSIVE ListsOver(_)
ListsOver(S) ==
    {<<>>} \cup UNION {{<<x>> \o t : t \in ListsOver(S \ {x})} : x \in S}

NoCall == [op |-> "none", id |-> Null, parent |-> Null, ids |-> <<>>, ret |-> "none"]
Call(op, id, parent, ids, ret) ==
    [op |-> op, id |-> id, parent |-> parent, ids |-> ids, ret |-> ret]

\* a stored blob written by a release whose settings carry closedNotebooks
EmptyClosedBlob ==
    [kind |-> "json", hasSettings |-> TRUE, items |-> <<>>,
     settings |-> [DefaultSettings EXCEPT !.closed = "list"]]

Idle == /\ kept = NullData
        /\ pc = "store"

Init ==
    /\ blob \in {AbsentBlob, EmptyClosedBlob}
    /\ data = NullData
    /\ nextId = 1
    /\ calls = 0
    /\ clock = 0
    /\ last = NoCall
    /\ heard = <<>>
    /\ Idle

Returns(o, call) ==
    /\ calls < MaxCalls
    /\ calls' = calls + 1
    /\ data' = o.data
    /\ blob' = o.blob
    /\ heard' = o.heard
    /\ last' = call
    /\ UNCHANGED <<clock, kept, pc>>

Tick ==
    /\ clock < MaxClock
    /\ clock' = clock + 1
    /\ UNCHANGED <<blob, data, nextId, calls, last, heard, kept, pc>>

Initialize ==
    /\ data.kind = "null"
    /\ data' = loadData(blob)
    /\ last' = Call("initialize", Null, Null, <<>>, "true")
    /\ heard' = <<>>
    /\ UNCHANGED <<blob, nextId, calls, clock, kept, pc>>

CreateItem ==
    /\ data.kind # "null"
    /\ nextId <= MaxItems
    /\ \E type \in Types, parentId \in {Null} \cup KnownIds :
          LET o == C_createItem(data, blob, NameA, type, Null, parentId, nextId, clock)
          IN Returns(o, Call("createItem", nextId, parentId, <<>>, o.ret))
    /\ nextId' = nextId + 1

DeleteItem ==
    /\ data.kind # "null"
    /\ \E id \in KnownIds :
          LET o == C_deleteItem(data, blob, id, clock)
          IN Returns(o, Call("deleteItem", id, Null, <<>>, o.ret))
    /\ UNCHANGED nextId

RenameItem ==
    /\ data.kind # "null"
    /\ \E id \in KnownIds, newName \in {NameA, NameB} :
          LET o == C_renameItem(data, blob, id, newName, clock)
          IN Returns(o, Call("renameItem", id, Null, <<>>, o.ret))
    /\ UNCHANGED nextId

MoveItem ==
    /\ data.kind # "null"
    /\ \E id \in KnownIds, newParentId \in {Null} \cup KnownIds,
          insertIndex \in {NoIndex} \cup ((0 - MaxBelow)..MaxIndex) :
          LET o == C_moveItem(data, blob, id, newParentId, insertIndex, clock)
          IN Returns(o, Call("moveItem", id, newParentId, <<insertIndex>>, o.ret))
    /\ UNCHANGED nextId

ReorderItems ==
    /\ data.kind # "null"
    /\ \E parentId \in {Null} \cup KnownIds, itemIds \in ListsOver(KnownIds) :
          LET o == C_reorderItems(data, blob, parentId, itemIds, clock)
          IN Returns(o, Call("reorderItems", Null, parentId, itemIds, o.ret))
    /\ UNCHANGED nextId

EnsureFolder ==
    /\ data.kind # "null"
    /\ \E id \in KnownIds :
          LET o == C_ensureFolder(data, blob, id, clock)
          IN Returns(o, Call("ensureFolder", id, Null, <<>>, o.ret))
    /\ UNCHANGED nextId

\* the id lists the settings calls are given: none, or one known id
ShortLists == {<<>>} \cup {<<i>> : i \in KnownIds}

SetExpandedState ==
    /\ data.kind # "null"
    /\ \E ids \in ShortLists :
          LET o == C_setExpandedState(data, blob, ids, clock)
          IN Returns(o, Call("setExpandedState", Null, Null, ids, o.ret))
    /\ UNCHANGED nextId

SetSelectedItems ==
    /\ data.kind # "null"
    /\ \E ids \in ShortLists :
          LET o == C_setSelectedItems(data, blob, ids, clock)
          IN Returns(o, Call("setSelectedItems", Null, Null, ids, o.ret))
    /\ UNCHANGED nextId

CloseNotebook ==
    /\ data.kind # "null"
    /\ \E id \in KnownIds :
          LET o == C_closeNotebook(data, blob, id, clock)
          IN Returns(o, Call("closeNotebook", id, Null, <<>>, o.ret))
    /\ UNCHANGED nextId

RestoreNotebook ==
    /\ data.kind # "null"
    /\ \E id \in KnownIds :
          LET o == C_restoreNotebook(data, blob, id, clock)
          IN Returns(o, Call("restoreNotebook", id, Null, <<>>, o.ret))
    /\ UNCHANGED nextId

Next ==
    \/ Tick
    \/ Initialize
    \/ CreateItem
    \/ DeleteItem
    \/ RenameItem
    \/ MoveItem
    \/ ReorderItems
    \/ EnsureFolder
    \/ SetExpandedState
    \/ SetSelectedItems
    \/ CloseNotebook
    \/ RestoreNotebook

Spec == Init /\ [][Next]_vars

(***************************************************************************)
(* Natural sort on a store that holds one folder (id 1) with named         *)
(* children and one more root item.                                        *)
(***************************************************************************)
SortAlphabet == {" ", "1", "d"}

RECURSIVE NamesOfLength(_)
NamesOfLength(n) ==
    IF n = 0 THEN {<<>>}
    ELSE {Append(w, c) : w \in NamesOfLength(n - 1), c \in SortAlphabet}

\* the names a rename dialog can hand over: not empty, trimmed
TrimmedNames ==
    {w \in UNION {NamesOfLength(n) : n \in 1..MaxNameLen} :
        w[1] # " " /\ w[Len(w)] # " "}

ExampleNames ==
    {<<"D", "o", "c", " ", "1", "0">>, <<"D", "o", "c", " ", "2">>,
     <<"D", "o", "c">>, <<"d", "o", "c", "1">>}

\* the children's names, in the order the children are in before the sort
SortInputs ==
    {<<a, b>> : a \in TrimmedNames, b \in TrimmedNames}
    \cup {w \in [1..4 -> ExampleNames] : \A i, j \in 1..4 : i # j => w[i] # w[j]}

NamedChild(names, k) ==
    [id |-> k + 1, name |-> names[k], blockId |-> Null, parentId |-> 1,
     order |-> k - 1, type |-> "document", kids |-> "absent", children |-> <<>>,
     modified |-> 0]

SortItems(names) ==
    <<[id |-> 1, name |-> NameA, blockId |-> Null, parentId |-> Null, order |-> 0,
       type |-> "folder", kids |-> "list",
       children |-> [k \in DOMAIN names |-> k + 1], modified |-> 0]>>
    \o [k \in DOMAIN names |-> NamedChild(names, k)]
    \o <<[id |-> Len(names) + 2, name |-> NameB, blockId |-> Null, parentId |-> Null,
          order |-> 1, type |-> "document", kids |-> "absent", children |-> <<>>,
          modified |-> 0]>>

InitSort ==
    /\ \E names \in SortInputs :
          /\ blob = Stringify(Tree(SortItems(names), DefaultSettings))
          /\ data = Tree(SortItems(names), DefaultSettings)
          /\ nextId = Len(names) + 3
    /\ calls = 0
    /\ clock = 0
    /\ last = NoCall
    /\ heard = <<>>
    /\ Idle

NaturalSortChildren ==
    /\ data.kind # "null"
    /\ \E parentId \in {Null} \cup KnownIds :
          \E f \in SortOutcomes(ChildrenToSort(data, parentId)) :
              LET o == C_naturalSortChildren(data, blob, parentId, f, clock)
              IN Returns(o, Call("naturalSortChildren", Null, parentId, <<>>, o.ret))
    /\ UNCHANGED nextId

NextSort == NaturalSortChildren

SpecSort == InitSort /\ [][NextSort]_vars

(***************************************************************************)
(* FolderTreeRenderer: the drop handlers and the query synchronization.    *)
(* A handler is a sequence of awaited store calls; s is the store as the   *)
(* handler goes: [data, blob, heard, nextId, created, deleted, ret].       *)
(***************************************************************************)
Run(d, b, n) ==
    [data |-> d, blob |-> b, heard |-> <<>>, nextId |-> n,
     created |-> 0, deleted |-> 0, ret |-> "void"]

\* the handler awaited a store call whose outcome is o
Then(s, o) == [s EXCEPT !.data = o.data, !.blob = o.blob, !.heard = @ \o o.heard]

Answered(s, o) == [Then(s, o) EXCEPT !.ret = o.ret]
Refused(s) == [s EXCEPT !.ret = "false"]

SyncDeleted(s, o) == [Then(s, o) EXCEPT !.deleted = @ + 1]
SyncCreated(s, o) == [Then(s, o) EXCEPT !.created = @ + 1, !.nextId = @ + 1]

RECURSIVE DeleteStale(_, _, _, _, _)
\* "for (const child of existingChildren)
\*    if (child.blockId && !resultBlockIds.has(child.blockId)) deleteItem(child.id)"
DeleteStale(s, existing, keep, k, now) ==
    IF k > Len(existing) THEN s
    ELSE DeleteStale(
             IF existing[k].blockId # Null /\ existing[k].blockId \notin keep
             THEN SyncDeleted(s, C_deleteItem(s.data, s.blob, existing[k].id, now))
             ELSE s,
             existing, keep, k + 1, now)

\* a lookup that never finds the child
HasBlock_NeverFound(children, blockId) == FALSE

HasBlock(children, blockId) ==
    \E i \in DOMAIN children : children[i].blockId = blockId

RECURSIVE CreateMissing(_, _, _, _, _, _)
\* the loop over resultBlocks: a result no child of existingChildren carries
\* gets a new document under the query folder
CreateMissing(s, existing, results, queryFolderId, i, now) ==
    IF i > Len(results) THEN s
    ELSE CreateMissing(
             IF HasBlock(existing, results[i]) THEN s
             ELSE SyncCreated(s, C_createItem(s.data, s.blob, NameA, "document",
                                              results[i], queryFolderId, s.nextId, now)),
             existing, results, queryFolderId, i + 1, now)

RECURSIVE OrderedIds(_, _, _)
\* resultBlocks.map(r => updatedChildren.find(c => c.blockId === r)?.id)
\*             .filter(Boolean)
OrderedIds(updated, results, i) ==
    IF i > Len(results) THEN <<>>
    ELSE (IF HasBlock(updated, results[i])
          THEN <<updated[SetMin({k \in DOMAIN updated :
                                    updated[k].blockId = results[i]})].id>>
          ELSE <<>>)
         \o OrderedIds(updated, results, i + 1)

ReorderTo(s, queryFolderId, orderedIds, now) ==
    IF orderedIds # <<>>
    THEN Then(s, C_reorderItems(s.data, s.blob, queryFolderId, orderedIds, now))
    ELSE s

ReorderAsResults(s, queryFolderId, results, now) ==
    ReorderTo(s, queryFolderId,
              OrderedIds(getItemChildren(s.data, queryFolderId), results, 1), now)

SyncResults(s, existing, queryFolderId, results, now) ==
    ReorderAsResults(
        CreateMissing(DeleteStale(s, existing, Range(results), 1, now),
                      existing, results, queryFolderId, 1, now),
        queryFolderId, results, now)

\* a refresh that deletes every child and makes the results anew
updateQueryBlockChildren_Recreate(s, queryFolderId, results, now) ==
    SyncResults(DeleteStale(s, getItemChildren(s.data, queryFolderId), {}, 1, now),
                <<>>, queryFolderId, results, now)

\* results: the block ids the query gave, in its order
updateQueryBlockChildren(s, queryFolderId, results, now) ==
    IF results = <<>>
    THEN DeleteStale(s, getItemChildren(s.data, queryFolderId), {}, 1, now)
    ELSE SyncResults(s, getItemChildren(s.data, queryFolderId), queryFolderId,
                     results, now)

RECURSIVE ClimbsTo(_, _, _, _)
\* the while loop of isAncestor, current the position of the item it stands on
ClimbsTo(d, ancestorId, current, visited) ==
    IF current = 0 THEN FALSE
    ELSE IF d.items[current].parentId = Null THEN FALSE
    ELSE IF d.items[current].parentId \in visited THEN FALSE
    ELSE IF d.items[current].parentId = ancestorId THEN TRUE
    ELSE ClimbsTo(d, ancestorId, getItemById(d, d.items[current].parentId),
                  visited \cup {d.items[current].parentId})

isAncestor(d, ancestorId, nodeId) ==
    ancestorId = nodeId \/ ClimbsTo(d, ancestorId, getItemById(d, nodeId), {})

\* Array.prototype.indexOf, 0-based, -1 when absent
IndexOf(ids, id) ==
    IF id \in Range(ids) THEN SetMin({i \in DOMAIN ids : ids[i] = id}) - 1 ELSE -1

\* "const [movedId] = ids.splice(draggedIndex, 1); ids.splice(at, 0, movedId)";
\* splice takes a start beyond the end as the end
MovedTo(ids, draggedId, at) ==
    InsertAt(RemoveFirst(ids, draggedId),
             IF at > Len(ids) - 1 THEN Len(ids) - 1 ELSE at,
             draggedId)

SiblingsReordered(s, siblingIds, draggedId, targetId, parentId, now) ==
    IF IndexOf(siblingIds, draggedId) = -1 \/ IndexOf(siblingIds, targetId) = -1
    THEN Refused(s)
    ELSE Answered(s, C_reorderItems(s.data, s.blob, parentId,
                                    MovedTo(siblingIds, draggedId,
                                            IndexOf(siblingIds, targetId)),
                                    now))

ParentFound(s, p, draggedId, targetId, parentId, now) ==
    IF p = 0 THEN Refused(s)
    ELSE IF s.data.items[p].kids # "list" THEN Refused(s)
    ELSE SiblingsReordered(s, s.data.items[p].children, draggedId, targetId,
                           parentId, now)

reorderItemsInParent(s, draggedId, targetId, parentId, now) ==
    ParentFound(s, getItemById(s.data, parentId), draggedId, targetId, parentId, now)

RootsReordered(s, rootIds, draggedId, targetId, insertIntent, now) ==
    IF IndexOf(rootIds, draggedId) = -1 \/ IndexOf(rootIds, targetId) = -1
    THEN Refused(s)
    ELSE Answered(s, C_reorderItems(s.data, s.blob, Null,
                                    MovedTo(rootIds, draggedId,
                                            IF insertIntent = "before"
                                            THEN IndexOf(rootIds, targetId)
                                            ELSE IndexOf(rootIds, targetId) + 1),
                                    now))

reorderRootItems(s, draggedId, targetId, insertIntent, now) ==
    RootsReordered(s, IdsOf(getRootItems(s.data)), draggedId, targetId,
                   insertIntent, now)

\* the second half of the insert branch; s.ret is "false" when the move failed
SortBeside(s, draggedId, targetId, parentForOrder, insertIntent, now) ==
    IF s.ret = "false" THEN s
    ELSE IF parentForOrder # Null
    THEN reorderItemsInParent(s, draggedId, targetId, parentForOrder, now)
    ELSE reorderRootItems(s, draggedId, targetId, insertIntent, now)

DropBeside(s, draggedItem, targetParentId, draggedId, targetId, insertIntent, now) ==
    SortBeside(IF draggedItem.parentId # targetParentId
               THEN Answered(s, C_moveItem(s.data, s.blob, draggedId, targetParentId,
                                           NoIndex, now))
               ELSE s,
               draggedId, targetId, targetParentId, insertIntent, now)

EnsuredTarget(s, targetItem, targetId, now) ==
    IF targetItem.type = "document"
    THEN Then(s, C_ensureFolder(s.data, s.blob, targetId, now))
    ELSE s

MovedInto(s, draggedId, targetId, now) ==
    Answered(s, C_moveItem(s.data, s.blob, draggedId, targetId, NoIndex, now))

DropInside(s, draggedItem, targetItem, draggedId, targetId, now) ==
    IF draggedItem.type = "notebook" THEN Refused(s)
    ELSE MovedInto(EnsuredTarget(s, targetItem, targetId, now), draggedId, targetId, now)

DropFound(s, draggedItem, targetItem, draggedId, targetId, insertIntent, now) ==
    IF draggedItem.type = "notebook" /\ targetItem.parentId # Null THEN Refused(s)
    ELSE IF isAncestor(s.data, draggedId, targetId) THEN Refused(s)
    ELSE IF insertIntent # "none"
    THEN DropBeside(s, draggedItem, targetItem.parentId, draggedId, targetId,
                    insertIntent, now)
    ELSE DropInside(s, draggedItem, targetItem, draggedId, targetId, now)

\* FolderTreeRenderer.reorderItems; insertIntent is "before", "after" or "none"
R_reorderItems(s, draggedId, targetId, insertIntent, now) ==
    IF getItemById(s.data, draggedId) = 0 \/ getItemById(s.data, targetId) = 0
    THEN Refused(s)
    ELSE DropFound(s, s.data.items[getItemById(s.data, draggedId)],
                   s.data.items[getItemById(s.data, targetId)],
                   draggedId, targetId, insertIntent, now)

ItemCreated(s, o) == [Answered(s, o) EXCEPT !.nextId = @ + 1]

\* "if (!this.expandedItems.has(id)) { this.expandedItems.add(id);
\*  await this.core.setExpandedState(Array.from(this.expandedItems)) }"; the
\* view's set is the one it last handed to setExpandedState
Expanded(s, id, now) ==
    IF id \in Range(s.data.settings.expandedItems) THEN s
    ELSE Then(s, C_setExpandedState(s.data, s.blob,
                                    Append(s.data.settings.expandedItems, id), now))

\* the parent is expanded when the item was made
ExpandedIfMade(s, parentId, now) ==
    IF s.ret = "item" /\ parentId # Null THEN Expanded(s, parentId, now) ELSE s

\* createDocumentFromBlock for a block that is not a query block
createDocumentFromBlock(s, blockId, targetId, now) ==
    ExpandedIfMade(
        ItemCreated(s, C_createItem(s.data, s.blob, NameA, "document", blockId,
                                    targetId, s.nextId, now)),
        targetId, now)

\* "new folder" on a notebook or a folder of the tree
R_createFolder(s, parentId, now) ==
    ExpandedIfMade(
        ItemCreated(s, C_createItem(s.data, s.blob, NameA, "folder", Null, parentId,
                                    s.nextId, now)),
        parentId, now)

\* handleDrop of an editor block on a tree item, no insert intent
DropBlockInside(s, targetItem, blockId, targetId, now) ==
    createDocumentFromBlock(EnsuredTarget(s, targetItem, targetId, now),
                            blockId, targetId, now)

\* FolderTreeRenderer.deleteDocument and deleteNotebook
R_deleteItem(s, id, now) ==
    IF getItemById(s.data, id) = 0 THEN s
    ELSE Answered(s, C_deleteItem(s.data, s.blob, id, now))

(***************************************************************************)
(* The tree view over a store that holds one query folder                  *)
(***************************************************************************)
BlockIds == 1..MaxBlocks
QueryBlockId == MaxBlocks + 1
QueryFolderId == 1

RECURSIVE ResultsOfLength(_)
ResultsOfLength(n) ==
    IF n = 0 THEN {<<>>}
    ELSE {Append(r, b) : r \in ResultsOfLength(n - 1), b \in BlockIds}

\* what the query can answer: block ids in the query's order
ResultLists == UNION {ResultsOfLength(n) : n \in 0..MaxResults}

QueryFolderItem ==
    [id |-> QueryFolderId, name |-> NameA, blockId |-> QueryBlockId, parentId |-> Null,
     order |-> 0, type |-> "folder", kids |-> "list", children |-> <<>>,
     modified |-> 0]

\* the children of the query folder, as the claim looks at them
ChildrenOf(d, itemId) ==
    {<<d.items[i].id, d.items[i].blockId>> :
        i \in {j \in DOMAIN d.items : d.items[j].parentId = itemId}}

\* what a run did; again: the call before it was a run with the same results
SyncRun(s, again) ==
    [kind |-> "sync", created |-> s.created, deleted |-> s.deleted,
     children |-> ChildrenOf(s.data, QueryFolderId), again |-> again]

InitSync ==
    /\ blob = Stringify(Tree(<<QueryFolderItem>>, DefaultSettings))
    /\ data = Tree(<<QueryFolderItem>>, DefaultSettings)
    /\ nextId = QueryFolderId + 1
    /\ calls = 0
    /\ clock = 0
    /\ last = NoCall
    /\ heard = <<>>
    /\ Idle

Handled(s, call, run) ==
    /\ calls < MaxCalls
    /\ s.nextId <= MaxSyncItems + 1
    /\ calls' = calls + 1
    /\ data' = s.data
    /\ blob' = s.blob
    /\ heard' = s.heard
    /\ nextId' = s.nextId
    /\ last' = call
    /\ kept' = run
    /\ UNCHANGED <<clock, pc>>

UpdateQueryBlockChildren ==
    /\ getItemById(data, QueryFolderId) # 0
    /\ \E results \in ResultLists :
          LET s == updateQueryBlockChildren(Run(data, blob, nextId), QueryFolderId,
                                            results, clock)
          IN Handled(s, Call("updateQueryBlockChildren", QueryFolderId, Null, results,
                             s.ret),
                     SyncRun(s, last.op = "updateQueryBlockChildren"
                                    /\ last.ids = results))

DropBlock ==
    \E blockId \in BlockIds, targetId \in KnownIds :
        /\ getItemById(data, targetId) # 0
        /\ LET s == DropBlockInside(Run(data, blob, nextId),
                                    data.items[getItemById(data, targetId)],
                                    blockId, targetId, clock)
           IN Handled(s, Call("dropBlock", blockId, targetId, <<>>, s.ret), kept)

DragItem ==
    \E draggedId \in KnownIds, targetId \in KnownIds,
       insertIntent \in {"before", "after", "none"} :
        /\ draggedId # targetId
        /\ LET s == R_reorderItems(Run(data, blob, nextId), draggedId, targetId,
                                   insertIntent, clock)
           IN Handled(s, Call(insertIntent, draggedId, targetId, <<>>, s.ret), kept)

CreateFolder ==
    \E parentId \in KnownIds :
        /\ getItemById(data, parentId) # 0
        /\ IsContainer(data.items[getItemById(data, parentId)])
        /\ LET s == R_createFolder(Run(data, blob, nextId), parentId, clock)
           IN Handled(s, Call("createFolder", Null, parentId, <<>>, s.ret), kept)

DeleteTreeItem ==
    \E id \in KnownIds :
        LET s == R_deleteItem(Run(data, blob, nextId), id, clock)
        IN Handled(s, Call("deleteDocument", id, Null, <<>>, s.ret), kept)

NextSync ==
    \/ UpdateQueryBlockChildren
    \/ DropBlock
    \/ DragItem
    \/ CreateFolder
    \/ DeleteTreeItem

SpecSync == InitSync /\ [][NextSync]_vars

(***************************************************************************)
(* Load, save unchanged, load again, from each stored blob of the current  *)
(* schema (and from no blob, and from one JSON.parse rejects)              *)
(***************************************************************************)
StoredKids == {[kids |-> "absent", children |-> <<>>],
               [kids |-> "list", children |-> <<>>],
               [kids |-> "list", children |-> <<2>>]}

\* a root item with id 1
StoredFirst ==
    {[id |-> 1, name |-> NameA, blockId |-> Null, parentId |-> Null, order |-> 0,
      type |-> type, kids |-> k.kids, children |-> k.children, modified |-> 0] :
        type \in Types, k \in StoredKids}

\* an item with id 2, at root or under item 1
StoredSecond ==
    {[id |-> 2, name |-> NameB, blockId |-> blockId, parentId |-> parentId,
      order |-> order, type |-> type, kids |-> kids, children |-> <<>>,
      modified |-> modified] :
        blockId \in {Null, 1}, parentId \in {Null, 1}, order \in {0, 1},
        type \in Types, kids \in {"absent", "list"}, modified \in 0..MaxClock}

StoredItems ==
    {<<>>} \cup {<<a>> : a \in StoredFirst}
           \cup {<<a, b>> : a \in StoredFirst, b \in StoredSecond}

StoredSettings ==
    {[expandedItems |-> e, selectedItems |-> <<>>, closed |-> c.closed,
      closedNotebooks |-> c.closedNotebooks] :
        e \in {<<>>, <<1>>},
        c \in {[closed |-> "absent", closedNotebooks |-> <<>>],
               [closed |-> "list", closedNotebooks |-> <<>>],
               [closed |-> "list", closedNotebooks |-> <<1>>]}}

StoredBlobs ==
    {AbsentBlob, GarbageBlob}
    \cup {[kind |-> "json", hasSettings |-> TRUE, items |-> items, settings |-> st] :
             items \in StoredItems, st \in StoredSettings}
    \cup {[kind |-> "json", hasSettings |-> FALSE, items |-> items,
           settings |-> DefaultSettings] : items \in StoredItems}

InitRoundTrip ==
    /\ blob \in StoredBlobs
    /\ data = NullData
    /\ nextId = 1
    /\ calls = 0
    /\ clock = 0
    /\ last = NoCall
    /\ heard = <<>>
    /\ Idle

\* the first loadData; kept is a copy of what it returned
LoadFirst ==
    /\ pc = "store"
    /\ data' = loadData(blob)
    /\ kept' = loadData(blob)
    /\ pc' = "loaded"
    /\ UNCHANGED <<blob, nextId, calls, clock, last, heard>>

\* saveData of the loaded object, which it stamps in place
SaveUnchanged ==
    /\ pc = "loaded"
    /\ data' = saveData(data, clock).data
    /\ blob' = saveData(data, clock).blob
    /\ pc' = "saved"
    /\ UNCHANGED <<nextId, calls, clock, last, heard, kept>>

LoadAgain ==
    /\ pc = "saved"
    /\ data' = loadData(blob)
    /\ pc' = "reloaded"
    /\ UNCHANGED <<blob, nextId, calls, clock, last, heard, kept>>

NextRoundTrip ==
    \/ Tick
    \/ LoadFirst
    \/ SaveUnchanged
    \/ LoadAgain

SpecRoundTrip == InitRoundTrip /\ [][NextRoundTrip]_vars

(***************************************************************************)
(* Properties                                                              *)
(***************************************************************************)
Items == IF data.kind = "null" THEN <<>> ELSE data.items
ItemIds(items) == {items[i].id : i \in DOMAIN items}
ParentIds(items) == {items[i].parentId : i \in DOMAIN items}
ChildPositions(items, P) == {i \in DOMAIN items : items[i].parentId = P}

\* the parentId of the item id, Null when there is no such item
ParentOf(items, id) ==
    IF FindIdx(items, id) = 0 THEN Null ELSE items[FindIdx(items, id)].parentId

RECURSIVE UpFrom(_, _, _)
\* the id reached from id by following parentId k times
UpFrom(items, id, k) ==
    IF k = 0 \/ id = Null THEN id ELSE UpFrom(items, ParentOf(items, id), k - 1)

\* a is reached from x by following parentId at least once
HasAncestor(items, x, a) == \E k \in 1..Len(items) : UpFrom(items, x, k) = a

\* a call returned in this step
Called(op) == calls' = calls + 1 /\ last'.op = op

\* C1: for every parent P (the root level included) the order values of the
\* items whose parentId is P are exactly 0 .. n-1, n the number of those items.
C1_OrderDensity ==
    \A P \in ParentIds(Items) \cup {Null} :
        {Items[i].order : i \in ChildPositions(Items, P)}
            = 0..(Cardinality(ChildPositions(Items, P)) - 1)

\* C2: no item is its own ancestor.
C2_Acyclic == \A id \in ItemIds(Items) : ~HasAncestor(Items, id, id)

\* C3: moveItem(id, newParentId) with newParentId equal to id or a descendant
\* of id returns false and leaves the stored tree and the snapshot unchanged.
C3_MoveIntoSubtreeRefused ==
    [][(/\ Called("moveItem")
        /\ last'.id \in ItemIds(Items)
        /\ \/ last'.parent = last'.id
           \/ HasAncestor(Items, last'.parent, last'.id))
       => (last'.ret = "false" /\ data' = data /\ blob' = blob)]_vars

\* C4: every item of type notebook has parentId null.
C4_NotebooksAtRoot ==
    \A i \in DOMAIN Items : Items[i].type = "notebook" => Items[i].parentId = Null

\* C5: after deleteItem(C) returns true for a container C, neither C nor any
\* item that had C as an ancestor remains, and no remaining item has a
\* parentId naming C or one of its former descendants.
Subtree(items, c) == {c} \cup {x \in ItemIds(items) : HasAncestor(items, x, c)}

C5_CascadeDelete ==
    [][(/\ Called("deleteItem")
        /\ last'.ret = "true"
        /\ FindIdx(Items, last'.id) # 0
        /\ IsContainer(Items[FindIdx(Items, last'.id)]))
       => (/\ ItemIds(Items') \cap Subtree(Items, last'.id) = {}
           /\ ParentIds(Items') \cap Subtree(Items, last'.id) = {})]_vars

\* C6: moveItem(id, null) with no insertIndex on a nested item makes it the
\* last of getRootItems(), after every item that was already at root, and
\* getItemChildren of its former parent no longer contains it.
C6_MoveToRootIsLast ==
    [][(/\ Called("moveItem")
        /\ last'.ret = "true"
        /\ last'.parent = Null
        /\ last'.ids = <<NoIndex>>
        /\ ParentOf(Items, last'.id) # Null)
       => (/\ getRootItems(data') # <<>>
           /\ getRootItems(data')[Len(getRootItems(data'))].id = last'.id
           /\ last'.id \notin
                  Range(IdsOf(getItemChildren(data', ParentOf(Items, last'.id)))))]_vars

\* the comparator of the claim: names compared without regard to case, run by
\* run; two digit runs by value, any other pair of runs as strings; when one
\* name's runs are a prefix of the other's, the shorter name first
ClaimComparePart(aPart, bPart) ==
    IF (\A i \in DOMAIN aPart : aPart[i] \in Digits)
       /\ (\A i \in DOMAIN bPart : bPart[i] \in Digits)
    THEN DecimalValue(aPart) - DecimalValue(bPart)
    ELSE IF aPart # bPart
         THEN (IF StringLess(aPart, bPart) THEN -1 ELSE 1)
         ELSE 0

RECURSIVE ClaimCompareParts(_, _, _)
ClaimCompareParts(aParts, bParts, i) ==
    IF i > Len(aParts) \/ i > Len(bParts) THEN Len(aParts) - Len(bParts)
    ELSE IF ClaimComparePart(aParts[i], bParts[i]) # 0
         THEN ClaimComparePart(aParts[i], bParts[i])
         ELSE ClaimCompareParts(aParts, bParts, i + 1)

ClaimCompare(a, b) ==
    ClaimCompareParts(Parts(toLowerCase(a)), Parts(toLowerCase(b)), 1)

Ascending(children) ==
    \A i \in 1..(Len(children) - 1) :
        ClaimCompare(children[i].name, children[i + 1].name) <= 0

\* the items of before that are not children of P are in after, with the same
\* parent, order, name and type
OthersKept(before, after, P) ==
    \A i \in DOMAIN before :
        before[i].parentId # P =>
            /\ FindIdx(after, before[i].id) # 0
            /\ after[FindIdx(after, before[i].id)].parentId = before[i].parentId
            /\ after[FindIdx(after, before[i].id)].order = before[i].order
            /\ after[FindIdx(after, before[i].id)].name = before[i].name
            /\ after[FindIdx(after, before[i].id)].type = before[i].type

\* C7: naturalSortChildren(parentId) reorders exactly the children of parentId
\* so that their names are ascending under the natural comparator.
C7_NaturalSort ==
    [][(Called("naturalSortChildren") /\ last'.ret = "true")
       => (/\ Ascending(getItemChildren(data', last'.parent))
           /\ Range(IdsOf(getItemChildren(data', last'.parent)))
                  = Range(IdsOf(getItemChildren(data, last'.parent)))
           /\ ItemIds(Items') = ItemIds(Items)
           /\ OthersKept(Items, Items', last'.parent))]_vars

\* C7, the names of the claim: whatever order the four children start in,
\* they end as Doc, doc1, Doc 2, Doc 10.
C7_Example ==
    (/\ last.op = "naturalSortChildren"
     /\ last.parent = 1
     /\ Len(getItemChildren(data, 1)) = 4)
    => [k \in 1..4 |-> getItemChildren(data, 1)[k].name]
           = << <<"D", "o", "c">>, <<"d", "o", "c", "1">>,
                <<"D", "o", "c", " ", "2">>, <<"D", "o", "c", " ", "1", "0">> >>

Unstamped(d) ==
    IF d.kind = "null" THEN d
    ELSE [d EXCEPT !.items = [i \in DOMAIN @ |-> [@[i] EXCEPT !.modified = 0]]]

Mutations ==
    {"createItem", "deleteItem", "renameItem", "moveItem", "reorderItems",
     "ensureFolder", "closeNotebook", "restoreNotebook", "setExpandedState",
     "setSelectedItems"}

C12_NeverThrows == last.ret # "throws"

\* the call just made names an item that does not exist: the id of a
\* deleteItem, renameItem or moveItem, or the non-null parent of a moveItem or
\* reorderItems
NamesMissingItem ==
    \/ /\ last'.op \in {"deleteItem", "renameItem", "moveItem"}
       /\ last'.id \notin ItemIds(Items)
    \/ /\ last'.op \in {"moveItem", "reorderItems"}
       /\ last'.parent # Null
       /\ last'.parent \notin ItemIds(Items)

\* C13: deleteItem, renameItem, moveItem and reorderItems called with an id,
\* or a non-null parentId, that names no existing item return false and leave
\* the stored blob and the snapshot unchanged.
C13_MissingIdRefused ==
    [][(calls' = calls + 1 /\ NamesMissingItem)
       => (/\ last'.ret = "false"
           /\ blob' = blob
           /\ data' = data)]_vars

\* the item id exists in the snapshot and is a notebook
IsNotebook(items, id) ==
    /\ FindIdx(items, id) # 0
    /\ items[FindIdx(items, id)].type = "notebook"

RootIds(d) == Range(IdsOf(getRootItems(d)))

\* C17: closeNotebook(id) on a notebook puts id in closedNotebooks, takes it
\* out of getRootItems() and leaves every item as it was; restoreNotebook(id)
\* right after takes id out of closedNotebooks and puts the notebook back in
\* getRootItems(); closeNotebook on a missing id or on an item that is not a
\* notebook returns false and changes nothing.
C17_CloseRestore ==
    [][/\ (Called("closeNotebook") /\ IsNotebook(Items, last'.id))
          => (/\ last'.id \in Range(getClosedNotebooks(data'))
              /\ last'.id \notin RootIds(data')
              /\ Unstamped(data').items = Unstamped(data).items)
       /\ (/\ Called("restoreNotebook")
           /\ last.op = "closeNotebook"
           /\ last.ret = "true"
           /\ last'.id = last.id)
          => (/\ Range(getClosedNotebooks(data'))
                    = Range(getClosedNotebooks(data)) \ {last'.id}
              /\ RootIds(data')
                    = RootIds(data) \cup {i \in {last'.id} : ParentOf(Items, i) = Null}
              /\ Unstamped(data').items = Unstamped(data).items)
       /\ (Called("closeNotebook") /\ ~IsNotebook(Items, last'.id))
          => (/\ last'.ret = "false"
              /\ blob' = blob
              /\ data' = data)]_vars

\* C20: every item with a non-null parentId has a parent that exists and is a
\* notebook or a folder.
C20_ParentIsContainer ==
    \A i \in DOMAIN Items :
        Items[i].parentId # Null
            => (/\ FindIdx(Items, Items[i].parentId) # 0
                /\ IsContainer(Items[FindIdx(Items, Items[i].parentId)]))

\* the item id exists in the snapshot and is a document
IsDocument(items, id) ==
    /\ FindIdx(items, id) # 0
    /\ items[FindIdx(items, id)].type = "document"

\* items with the item at position x made a folder with an empty children list
\* and nothing else changed
AsEmptyFolder(items, x) ==
    [items EXCEPT ![x].type = "folder", ![x].kids = "list", ![x].children = <<>>]

\* C18: ensureFolder(id) on a document makes it a folder with an empty
\* children list and changes nothing else in the snapshot or in the stored
\* tree, the modified timestamps that every save refreshes aside; an
\* ensureFolder(id) that follows one of the same id leaves the tree as it was.
C18_EnsureFolder ==
    [][/\ (Called("ensureFolder") /\ IsDocument(Items, last'.id))
          => (/\ last'.ret = "true"
              /\ Unstamped(data')
                   = [Unstamped(data) EXCEPT
                         !.items = AsEmptyFolder(@, FindIdx(Items, last'.id))]
              /\ Unstamped(loadData(blob')) = Unstamped(data'))
       /\ (/\ Called("ensureFolder")
           /\ last.op = "ensureFolder"
           /\ last.ret = "true"
           /\ last'.id = last.id)
          => (/\ last'.ret = "true"
              /\ Unstamped(data') = Unstamped(data)
              /\ Unstamped(loadData(blob')) = Unstamped(loadData(blob)))]_vars

(***************************************************************************)
(* The store on a host whose reads and writes can throw. Every call draws, *)
(* for each write it makes, whether the host's setData works; initialize   *)
(* draws whether the host's getData works.                                 *)
(***************************************************************************)
\* loadData's catch: the read threw and the default data is returned
loadDataOn(b, readable) == IF readable THEN loadData(b) ELSE getDefaultData

\* saveData's catch: the items of the object given are stamped already, the
\* write threw, the error is shown to the user and the stored blob stays b
saveDataFailed(d, b, now) == [ok |-> FALSE, data |-> Stamp(d, now), blob |-> b]

saveDataOn(d, b, now, up) ==
    IF up THEN saveData(d, now) ELSE saveDataFailed(d, b, now)

\* a primitive's result r under a write that works (up) or throws: the write
\* is the last step of every primitive, so when it throws the primitive
\* returns false and the blob stays b
PrimitiveOn(r, b, up) == IF up \/ ~r.ok THEN r ELSE NotSaved(b)

\* the result of a call and the number of its writes that threw
Faulty(o, threw) == [out |-> o, threw |-> threw]
Threw(reached, up) == IF reached /\ ~up THEN 1 ELSE 0

H_createItem(d, b, name, type, blockId, parentId, id, now, up) ==
    IF up
    THEN Faulty(C_createItem(d, b, name, type, blockId, parentId, id, now), 0)
    ELSE Faulty(AfterCreate(d, CreateSaved(NotSaved(b), id)), 1)

\* r is what the primitive returns when its write works; up2 is the write of
\* FolderTreeCore.saveData that follows the reload
DeleteOn(d, b, r, now, up1, up2) ==
    IF ~r.ok \/ ~up1 \/ d.kind = "null"
    THEN Faulty(AfterDelete(d, PrimitiveOn(r, b, up1), now), Threw(r.ok, up1))
    ELSE Faulty(CoreSaved(saveDataOn(loadData(r.blob), r.blob, now, up2),
                          "true", "true"),
                Threw(TRUE, up2))

H_deleteItem(d, b, id, now, up1, up2) ==
    DeleteOn(d, b, P_deleteItem(b, id, now), now, up1, up2)

RenameOn(d, b, r, id, newName, now, up1, up2) ==
    IF ~r.ok \/ ~up1
    THEN Faulty(AfterRename(d, PrimitiveOn(r, b, up1), id, newName, now),
                Threw(r.ok, up1))
    ELSE Faulty(CoreSaved(saveDataOn(PatchName(d, FindIdx(d.items, id), newName, now),
                                     r.blob, now, up2),
                          "true", "true"),
                Threw(TRUE, up2))

H_renameItem(d, b, id, newName, now, up1, up2) ==
    IF d.kind = "null" THEN Faulty(Quiet(d, b, "false"), 0)
    ELSE RenameOn(d, b, P_renameItem(b, id, newName, now), id, newName, now, up1, up2)

MoveOn(d, b, r, up) == Faulty(AfterMove(d, PrimitiveOn(r, b, up)), Threw(r.ok, up))

H_moveItem(d, b, id, newParentId, insertIndex, now, up) ==
    MoveOn(d, b, P_moveItem(b, id, newParentId, insertIndex, now), up)

ReorderOn(d, b, r, up) ==
    Faulty(AfterReorder(d, PrimitiveOn(r, b, up)), Threw(r.ok, up))

H_reorderItems(d, b, parentId, itemIds, now, up) ==
    IF d.kind = "null" THEN Faulty(Quiet(d, b, "false"), 0)
    ELSE ReorderOn(d, b, P_reorderItems(b, parentId, itemIds, now), up)

EnsureOn(d, b, x, now, up) ==
    IF x = 0 THEN Faulty(Quiet(d, b, "false"), 0)
    ELSE Faulty(CoreSaved(saveDataOn(Promote(d, x), b, now, up), "true", "false"),
                Threw(TRUE, up))

H_ensureFolder(d, b, id, now, up) ==
    IF d.kind = "null" THEN Faulty(Quiet(d, b, "false"), 0)
    ELSE EnsureOn(d, b, FindIdx(d.items, id), now, up)

\* closeNotebook reaches its saveSettings
Closes(d, x, id) ==
    /\ x # 0
    /\ d.items[x].type = "notebook"
    /\ d.settings.closed = "list"
    /\ id \notin Range(d.settings.closedNotebooks)

H_closeNotebook(d, b, id, now, up) ==
    IF up \/ ~Closes(d, getItemById(d, id), id)
    THEN Faulty(C_closeNotebook(d, b, id, now), 0)
    ELSE Faulty(ClosedSaved([d EXCEPT !.settings.closedNotebooks = Append(@, id)],
                            NotSaved(b)), 1)

\* restoreNotebook reaches its saveSettings
Restores(d, id) ==
    /\ d.kind # "null"
    /\ d.settings.closed = "list"
    /\ id \in Range(d.settings.closedNotebooks)

H_restoreNotebook(d, b, id, now, up) ==
    IF up \/ ~Restores(d, id)
    THEN Faulty(C_restoreNotebook(d, b, id, now), 0)
    ELSE Faulty(ClosedSaved([d EXCEPT !.settings.closedNotebooks = RemoveFirst(@, id)],
                            NotSaved(b)), 1)

\* what the host did: whether the read of initialize worked, what initialize
\* returned, and how many writes of the last call threw
Host(read, init, threw) ==
    [kind |-> "host", read |-> read, init |-> init, threw |-> threw]

InitFault ==
    /\ blob \in {AbsentBlob, EmptyClosedBlob}
    /\ data = NullData
    /\ nextId = 1
    /\ calls = 0
    /\ clock = 0
    /\ last = NoCall
    /\ heard = <<>>
    /\ kept = Host("none", "none", 0)
    /\ pc = "store"

HostReturns(f, op, id, parent, ids) ==
    /\ calls < MaxCalls
    /\ calls' = calls + 1
    /\ data' = f.out.data
    /\ blob' = f.out.blob
    /\ heard' = f.out.heard
    /\ last' = Call(op, id, parent, ids, f.out.ret)
    /\ kept' = [kept EXCEPT !.threw = f.threw]
    /\ UNCHANGED <<clock, pc>>

HostTick ==
    /\ clock < MaxClock
    /\ clock' = clock + 1
    /\ UNCHANGED <<blob, data, nextId, calls, last, heard, kept, pc>>

\* initialize returns true whenever loadData returns, and loadData returns
\* whatever the host does
HostInitialize ==
    /\ data.kind = "null"
    /\ \E readable \in BOOLEAN :
          /\ data' = loadDataOn(blob, readable)
          /\ kept' = Host(IF readable THEN "ok" ELSE "threw", "true", 0)
    /\ last' = Call("initialize", Null, Null, <<>>, "true")
    /\ heard' = <<>>
    /\ UNCHANGED <<blob, nextId, calls, clock, pc>>

HostCreateItem ==
    /\ data.kind # "null"
    /\ nextId <= MaxItems
    /\ \E type \in Types, parentId \in {Null} \cup KnownIds, up \in BOOLEAN :
          HostReturns(H_createItem(data, blob, NameA, type, Null, parentId,
                                   nextId, clock, up),
                      "createItem", nextId, parentId, <<>>)
    /\ nextId' = nextId + 1

HostDeleteItem ==
    /\ data.kind # "null"
    /\ \E id \in KnownIds, up1 \in BOOLEAN, up2 \in BOOLEAN :
          HostReturns(H_deleteItem(data, blob, id, clock, up1, up2),
                      "deleteItem", id, Null, <<>>)
    /\ UNCHANGED nextId

HostRenameItem ==
    /\ data.kind # "null"
    /\ \E id \in KnownIds, up1 \in BOOLEAN, up2 \in BOOLEAN :
          HostReturns(H_renameItem(data, blob, id, NameB, clock, up1, up2),
                      "renameItem", id, Null, <<>>)
    /\ UNCHANGED nextId

HostMoveItem ==
    /\ data.kind # "null"
    /\ \E id \in KnownIds, newParentId \in {Null} \cup KnownIds, up \in BOOLEAN :
          HostReturns(H_moveItem(data, blob, id, newParentId, NoIndex, clock, up),
                      "moveItem", id, newParentId, <<NoIndex>>)
    /\ UNCHANGED nextId

HostReorderItems ==
    /\ data.kind # "null"
    /\ \E parentId \in {Null} \cup KnownIds, itemIds \in ListsOver(KnownIds),
          up \in BOOLEAN :
          HostReturns(H_reorderItems(data, blob, parentId, itemIds, clock, up),
                      "reorderItems", Null, parentId, itemIds)
    /\ UNCHANGED nextId

HostEnsureFolder ==
    /\ data.kind # "null"
    /\ \E id \in KnownIds, up \in BOOLEAN :
          HostReturns(H_ensureFolder(data, blob, id, clock, up),
                      "ensureFolder", id, Null, <<>>)
    /\ UNCHANGED nextId

HostCloseNotebook ==
    /\ data.kind # "null"
    /\ \E id \in KnownIds, up \in BOOLEAN :
          HostReturns(H_closeNotebook(data, blob, id, clock, up),
                      "closeNotebook", id, Null, <<>>)
    /\ UNCHANGED nextId

HostRestoreNotebook ==
    /\ data.kind # "null"
    /\ \E id \in KnownIds, up \in BOOLEAN :
          HostReturns(H_restoreNotebook(data, blob, id, clock, up),
                      "restoreNotebook", id, Null, <<>>)
    /\ UNCHANGED nextId

NextFault ==
    \/ HostTick
    \/ HostInitialize
    \/ HostCreateItem
    \/ HostDeleteItem
    \/ HostRenameItem
    \/ HostMoveItem
    \/ HostReorderItems
    \/ HostEnsureFolder
    \/ HostCloseNotebook
    \/ HostRestoreNotebook

SpecFault == InitFault /\ [][NextFault]_vars

TreeMutations ==
    {"createItem", "deleteItem", "renameItem", "moveItem", "reorderItems",
     "ensureFolder", "closeNotebook", "restoreNotebook"}

\* C14: a mutation during which a write to the host store threw returns false
\* (null for createItem), leaves the stored blob exactly as it was and invokes
\* no listener.
C14_WriteFailure ==
    [][(calls' = calls + 1 /\ last'.op \in TreeMutations /\ kept'.threw > 0)
       => (/\ last'.ret = (IF last'.op = "createItem" THEN "null" ELSE "false")
           /\ blob' = blob
           /\ heard' = <<>>)]_vars

\* C19: when the host's read throws during initialize(), initialize() returns
\* false, and every later mutation returns false or null and leaves the
\* stored blob as it was.
C19_InitializeFailure ==
    [][/\ kept'.read = "threw" => kept'.init = "false"
       /\ (kept.read = "threw" /\ calls' = calls + 1)
          => (/\ last'.ret \in {"false", "null"}
              /\ blob' = blob)]_vars

(***************************************************************************)
(* The store with its change listeners. kept holds the listeners array of  *)
(* the store, the listeners added and not since removed, and the calls     *)
(* notifyDataChange made to listeners during the last store call.          *)
(***************************************************************************)
MaxListeners == 2
Listeners == {"f", "g"}

\* this.listeners.push(listener)
addChangeListener(ls, f) == Append(ls, f)

\* "const index = this.listeners.indexOf(listener); if (index > -1) splice"
removeChangeListener(ls, f) == IF f \in Range(ls) THEN RemoveFirst(ls, f) ELSE ls

\* one notifyDataChange per entry of h, each calling every listener of ls in
\* turn with the snapshot of that moment
notifyDataChange(ls, h) ==
    [n \in 1..(Len(h) * Len(ls)) |->
        [fn |-> ls[((n - 1) % Len(ls)) + 1],
         snap |-> h[((n - 1) \div Len(ls)) + 1].snap]]

Listening(ls, added, invoked) ==
    [kind |-> "listeners", listeners |-> ls, added |-> added, invoked |-> invoked]

InitListen ==
    /\ blob \in {AbsentBlob, EmptyClosedBlob}
    /\ data = NullData
    /\ nextId = 1
    /\ calls = 0
    /\ clock = 0
    /\ last = NoCall
    /\ heard = <<>>
    /\ kept = Listening(<<>>, {}, <<>>)
    /\ pc = "store"

ListenReturns(o, call) ==
    /\ calls < MaxCalls
    /\ calls' = calls + 1
    /\ data' = o.data
    /\ blob' = o.blob
    /\ heard' = o.heard
    /\ last' = call
    /\ kept' = [kept EXCEPT !.invoked = notifyDataChange(kept.listeners, o.heard)]
    /\ UNCHANGED <<clock, pc>>

ListenInitialize ==
    /\ data.kind = "null"
    /\ data' = loadData(blob)
    /\ last' = Call("initialize", Null, Null, <<>>, "true")
    /\ heard' = <<>>
    /\ kept' = [kept EXCEPT !.invoked = <<>>]
    /\ UNCHANGED <<blob, nextId, calls, clock, pc>>

AddChangeListener ==
    /\ calls < MaxCalls
    /\ Len(kept.listeners) < MaxListeners
    /\ \E f \in Listeners :
          /\ kept' = Listening(addChangeListener(kept.listeners, f),
                               kept.added \cup {f}, <<>>)
          /\ last' = Call("addChangeListener", Null, Null, <<f>>, "none")
    /\ calls' = calls + 1
    /\ heard' = <<>>
    /\ UNCHANGED <<blob, data, nextId, clock, pc>>

RemoveChangeListener ==
    /\ calls < MaxCalls
    /\ \E f \in Listeners :
          /\ kept' = Listening(removeChangeListener(kept.listeners, f),
                               kept.added \ {f}, <<>>)
          /\ last' = Call("removeChangeListener", Null, Null, <<f>>, "none")
    /\ calls' = calls + 1
    /\ heard' = <<>>
    /\ UNCHANGED <<blob, data, nextId, clock, pc>>

ListenCreateItem ==
    /\ data.kind # "null"
    /\ nextId <= MaxItems
    /\ \E type \in Types, parentId \in {Null} \cup KnownIds :
          LET o == C_createItem(data, blob, NameA, type, Null, parentId, nextId, clock)
          IN ListenReturns(o, Call("createItem", nextId, parentId, <<>>, o.ret))
    /\ nextId' = nextId + 1

ListenDeleteItem ==
    /\ data.kind # "null"
    /\ \E id \in KnownIds :
          LET o == C_deleteItem(data, blob, id, clock)
          IN ListenReturns(o, Call("deleteItem", id, Null, <<>>, o.ret))
    /\ UNCHANGED nextId

ListenRenameItem ==
    /\ data.kind # "null"
    /\ \E id \in KnownIds :
          LET o == C_renameItem(data, blob, id, NameB, clock)
          IN ListenReturns(o, Call("renameItem", id, Null, <<>>, o.ret))
    /\ UNCHANGED nextId

ListenMoveItem ==
    /\ data.kind # "null"
    /\ \E id \in KnownIds, newParentId \in {Null} \cup KnownIds :
          LET o == C_moveItem(data, blob, id, newParentId, NoIndex, clock)
          IN ListenReturns(o, Call("moveItem", id, newParentId, <<NoIndex>>, o.ret))
    /\ UNCHANGED nextId

ListenReorderItems ==
    /\ data.kind # "null"
    /\ \E parentId \in {Null} \cup KnownIds, itemIds \in ShortLists :
          LET o == C_reorderItems(data, blob, parentId, itemIds, clock)
          IN ListenReturns(o, Call("reorderItems", Null, parentId, itemIds, o.ret))
    /\ UNCHANGED nextId

ListenEnsureFolder ==
    /\ data.kind # "null"
    /\ \E id \in KnownIds :
          LET o == C_ensureFolder(data, blob, id, clock)
          IN ListenReturns(o, Call("ensureFolder", id, Null, <<>>, o.ret))
    /\ UNCHANGED nextId

ListenCloseNotebook ==
    /\ data.kind # "null"
    /\ \E id \in KnownIds :
          LET o == C_closeNotebook(data, blob, id, clock)
          IN ListenReturns(o, Call("closeNotebook", id, Null, <<>>, o.ret))
    /\ UNCHANGED nextId

ListenRestoreNotebook ==
    /\ data.kind # "null"
    /\ \E id \in KnownIds :
          LET o == C_restoreNotebook(data, blob, id, clock)
          IN ListenReturns(o, Call("restoreNotebook", id, Null, <<>>, o.ret))
    /\ UNCHANGED nextId

NextListen ==
    \/ ListenInitialize
    \/ AddChangeListener
    \/ RemoveChangeListener
    \/ ListenCreateItem
    \/ ListenDeleteItem
    \/ ListenRenameItem
    \/ ListenMoveItem
    \/ ListenReorderItems
    \/ ListenEnsureFolder
    \/ ListenCloseNotebook
    \/ ListenRestoreNotebook

SpecListen == InitListen /\ [][NextListen]_vars

\* C16: a mutation that returns success has called every listener that was
\* added and not removed since, with the snapshot the mutation leaves; and no
\* call ever reaches a listener that was removed and not added again.
C16_ListenersNotified ==
    [][(calls' = calls + 1 /\ last'.op \in TreeMutations)
       => (/\ last'.ret \in {"true", "item"}
              => \A f \in kept'.added :
                     \E k \in DOMAIN kept'.invoked :
                         /\ kept'.invoked[k].fn = f
                         /\ kept'.invoked[k].snap = data'
           /\ \A k \in DOMAIN kept'.invoked :
                  kept'.invoked[k].fn \in kept'.added)]_vars

(***************************************************************************)
(* Query synchronization under a host query that can throw or answer with  *)
(* something that is not a list                                            *)
(***************************************************************************)
\* what invokeBackend('query', ...) does: it throws, or answers null,
\* undefined, an object that is not an array, or a list of blocks
Malformed == {"throws", "null", "undefined", "object"}

QueryAnswers ==
    {[kind |-> k, ids |-> <<>>] : k \in Malformed}
        \cup {[kind |-> "list", ids |-> r] : r \in ResultLists}

\* updateQueryBlockChildren from the answer of the host: a throw returns at
\* once; null and undefined take the "!results" path of an empty result; an
\* object that is not an array passes "results.length === 0" and is read as
\* the empty list of blocks by "Array.isArray(results) ? results : []"
SyncOnAnswer(s, queryFolderId, answer, now) ==
    IF answer.kind = "throws" THEN s
    ELSE IF answer.kind \in {"null", "undefined"}
    THEN DeleteStale(s, getItemChildren(s.data, queryFolderId), {}, 1, now)
    ELSE IF answer.kind = "object"
    THEN SyncResults(s, getItemChildren(s.data, queryFolderId), queryFolderId,
                     <<>>, now)
    ELSE updateQueryBlockChildren(s, queryFolderId, answer.ids, now)

\* what the host answered and what the run did
Answer(s, kind) ==
    [kind |-> "answer", answer |-> kind, created |-> s.created, deleted |-> s.deleted]

QueryAnswered ==
    /\ getItemById(data, QueryFolderId) # 0
    /\ \E answer \in QueryAnswers :
          LET s == SyncOnAnswer(Run(data, blob, nextId), QueryFolderId, answer, clock)
          IN Handled(s, Call("updateQueryBlockChildren", QueryFolderId, Null,
                             answer.ids, s.ret),
                     Answer(s, answer.kind))

NextQuery ==
    \/ QueryAnswered
    \/ DropBlock
    \/ CreateFolder

SpecQuery == InitSync /\ [][NextQuery]_vars

\* C15: a synchronization whose query throws, or answers null, undefined or
\* something that is not a list, deletes, creates and reorders nothing: the
\* snapshot and the stored tree are what they were.
C15_QueryFailureSkips ==
    [][(Called("updateQueryBlockChildren") /\ kept'.answer \in Malformed)
       => (/\ data' = data
           /\ blob' = blob)]_vars

(***************************************************************************)
(* Two store calls issued back to back, neither awaited. A call runs up to *)
(* its next await in one step: the primitive's read of the blob, the       *)
(* primitive's write, the core's reload and the core's continuation are    *)
(* steps that the two calls take in any order.                             *)
(***************************************************************************)
\* the store the two calls are issued on: initialized, holding folder 1
RaceBlob == P_createItem(AbsentBlob, NameA, "folder", Null, Null, 1, 0).blob

\* the calls that can be issued: a createItem of a document at root or under
\* folder 1, a renameItem of folder 1, a deleteItem of folder 1
RaceCalls(newId) ==
    {Call("createItem", newId, p, <<>>, "none") : p \in {Null, 1}}
        \cup {Call("renameItem", 1, Null, <<>>, "none"),
              Call("deleteItem", 1, Null, <<>>, "none")}

\* a call in flight: what it is and the data its last read returned
InFlight(call) == [call |-> call, loaded |-> NullData]

InitRace ==
    /\ blob = RaceBlob
    /\ data = loadData(RaceBlob)
    /\ nextId = 4
    /\ calls = 0
    /\ clock = 0
    /\ last = NoCall
    /\ heard = <<>>
    /\ \E callA \in RaceCalls(2), callB \in RaceCalls(3) :
          kept = [kind |-> "race", a |-> InFlight(callA), b |-> InFlight(callB)]
    /\ pc = [a |-> "load", b |-> "load"]

\* the primitive of call m on the data d it loaded, b the blob now stored:
\* the blob it leaves and whether it succeeded
RacePrimitive(m, b, d, now) ==
    IF m.op = "createItem"
    THEN Saved(saveData([d EXCEPT !.items =
                             CreateIn(@, NewItem(@, NameA, "document", Null,
                                                 m.parent, m.id, now))],
                        now))
    ELSE IF m.op = "renameItem" THEN RenameLoaded(b, d, m.id, NameB, now)
    ELSE DeleteLoaded(b, d, m.id, now)

\* where the core goes when the primitive has returned
AfterPrimitive(m, ok) ==
    IF ~ok THEN "done"
    ELSE IF m.op = "renameItem" THEN "patch"
    ELSE "reload"

Failed(m) == IF m.op = "createItem" THEN "null" ELSE "false"

\* "const data = await this.loadData()" of the primitive
RaceLoad(p) ==
    /\ pc[p] = "load"
    /\ kept' = [kept EXCEPT ![p].loaded = loadData(blob)]
    /\ pc' = [pc EXCEPT ![p] = "save"]
    /\ UNCHANGED <<blob, data, nextId, calls, clock, last, heard>>

\* the primitive changes what it loaded and writes it
RaceSave(p) ==
    /\ pc[p] = "save"
    /\ LET r == RacePrimitive(kept[p].call, blob, kept[p].loaded, clock)
       IN /\ blob' = r.blob
          /\ pc' = [pc EXCEPT ![p] = AfterPrimitive(kept[p].call, r.ok)]
          /\ last' = IF r.ok THEN last
                     ELSE [kept[p].call EXCEPT !.ret = Failed(kept[p].call)]
    /\ UNCHANGED <<data, nextId, calls, clock, heard, kept>>

\* "await this.persistence.loadData()" of createItem and deleteItem
RaceReload(p) ==
    /\ pc[p] = "reload"
    /\ kept' = [kept EXCEPT ![p].loaded = loadData(blob)]
    /\ pc' = [pc EXCEPT ![p] = "assign"]
    /\ UNCHANGED <<blob, data, nextId, calls, clock, last, heard>>

\* "this.data = ..." with what the reload returned; createItem notifies,
\* deleteItem saves the snapshot first
RaceAssign(p) ==
    /\ pc[p] = "assign"
    /\ LET o == IF kept[p].call.op = "createItem"
                THEN Notified(kept[p].loaded, blob, "item")
                ELSE CoreSave(kept[p].loaded, clock, "true")
       IN /\ data' = o.data
          /\ blob' = o.blob
          /\ heard' = heard \o o.heard
          /\ last' = [kept[p].call EXCEPT !.ret = o.ret]
    /\ pc' = [pc EXCEPT ![p] = "done"]
    /\ UNCHANGED <<nextId, calls, clock, kept>>

\* renameItem patches the snapshot it finds and saves it
RacePatch(p) ==
    /\ pc[p] = "patch"
    /\ LET o == CoreSave(PatchName(data, FindIdx(data.items, kept[p].call.id),
                                   NameB, clock),
                         clock, "true")
       IN /\ data' = o.data
          /\ blob' = o.blob
          /\ heard' = heard \o o.heard
          /\ last' = [kept[p].call EXCEPT !.ret = o.ret]
    /\ pc' = [pc EXCEPT ![p] = "done"]
    /\ UNCHANGED <<nextId, calls, clock, kept>>

NextRace ==
    \E p \in {"a", "b"} :
        \/ RaceLoad(p)
        \/ RaceSave(p)
        \/ RaceReload(p)
        \/ RaceAssign(p)
        \/ RacePatch(p)

SpecRace == InitRace /\ [][NextRace]_vars

\* the call m made on the store (d, b) and awaited
Awaited(m, d, b, now) ==
    IF m.op = "createItem"
    THEN C_createItem(d, b, NameA, "document", Null, m.parent, m.id, now)
    ELSE IF m.op = "renameItem" THEN C_renameItem(d, b, m.id, NameB, now)
    ELSE C_deleteItem(d, b, m.id, now)

AwaitedSecond(o, m, now) == Awaited(m, o.data, o.blob, now)

\* first, then second, each awaited, on the store the two calls were issued on
OneAfterTheOther(first, second) ==
    AwaitedSecond(Awaited(first, loadData(RaceBlob), RaceBlob, 0), second, 0)

SameTrees(o) ==
    /\ Unstamped(data) = Unstamped(o.data)
    /\ Unstamped(loadData(blob)) = Unstamped(loadData(o.blob))

\* C11: when two calls issued back to back have both returned, the stored tree
\* and the snapshot are those of one call awaited and then the other (in
\* either order), and the snapshot is what the stored blob holds.
C11_BackToBack ==
    (pc.a = "done" /\ pc.b = "done")
    => (/\ Unstamped(data) = Unstamped(loadData(blob))
        /\ \/ SameTrees(OneAfterTheOther(kept.a.call, kept.b.call))
           \/ SameTrees(OneAfterTheOther(kept.b.call, kept.a.call)))

\* the list ids names no id twice
NoDuplicate(ids) == \A i, j \in DOMAIN ids : ids[i] = ids[j] => i = j

\* C21: for every notebook or folder K, the children list of K has no
\* duplicate and holds exactly the ids of the items whose parentId is K.
C21_ChildrenMatchParents ==
    \A k \in DOMAIN Items :
        IsContainer(Items[k])
            => (/\ Items[k].kids = "list"
                /\ NoDuplicate(Items[k].children)
                /\ Range(Items[k].children)
                       = {Items[i].id : i \in ChildPositions(Items, Items[k].id)})

\* the children lists and the order values of the items
ListsAndOrders(items) ==
    [i \in DOMAIN items |->
        [id |-> items[i].id, kids |-> items[i].kids,
         children |-> items[i].children, order |-> items[i].order]]

\* C22: reorderItems with a non-null parentId that names an item which is not
\* a notebook or folder returns false and changes no children list and no
\* order value, in the snapshot or in the stored tree.
C22_ReorderNeedsContainer ==
    [][(/\ Called("reorderItems")
        /\ last'.parent # Null
        /\ FindIdx(Items, last'.parent) # 0
        /\ ~IsContainer(Items[FindIdx(Items, last'.parent)]))
       => (/\ last'.ret = "false"
           /\ ListsAndOrders(Items') = ListsAndOrders(Items)
           /\ ListsAndOrders(loadData(blob').items)
                  = ListsAndOrders(loadData(blob).items))]_vars

\* the 0-based position of id in the list of items rows, -1 when it is not there
RowOf(rows, id) ==
    IF \E i \in DOMAIN rows : rows[i].id = id
    THEN SetMin({i \in DOMAIN rows : rows[i].id = id}) - 1
    ELSE -1

\* the number of items other than id whose parentId is P
OthersUnder(items, P, id) ==
    Cardinality({i \in ChildPositions(items, P) : items[i].id # id})

Min(a, b) == IF a < b THEN a ELSE b
Max(a, b) == IF a > b THEN a ELSE b

\* C26: after moveItem(id, P, k) succeeds with P a notebook or folder that had
\* n other children, the moved item is at position min(max(k, 0), n) among
\* getItemChildren(P), at position n when no k is given, and the children list
\* of another old parent no longer holds id.
C26_MovePosition ==
    [][(/\ Called("moveItem")
        /\ last'.ret = "true"
        /\ FindIdx(Items, last'.parent) # 0
        /\ IsContainer(Items[FindIdx(Items, last'.parent)]))
       => (/\ RowOf(getItemChildren(data', last'.parent), last'.id)
                 = IF last'.ids[1] = NoIndex
                   THEN OthersUnder(Items, last'.parent, last'.id)
                   ELSE Min(Max(last'.ids[1], 0),
                            OthersUnder(Items, last'.parent, last'.id))
           /\ \A i \in DOMAIN Items' :
                  (/\ Items'[i].id = ParentOf(Items, last'.id)
                   /\ Items'[i].id # last'.parent)
                      => last'.id \notin Range(Items'[i].children))]_vars

\* the tree d with every children list emptied
WithoutLists(d) ==
    IF d.kind = "null" THEN d
    ELSE [d EXCEPT !.items = [i \in DOMAIN d.items |->
                                 [d.items[i] EXCEPT !.children = <<>>]]]

\* the ids of the rows, in their order
RowIds(rows) == [k \in DOMAIN rows |-> rows[k].id]

\* rows holds each item of the tree whose parentId is p once and no
\* other item, in ascending order value
RowsOfParent(rows, p) ==
    /\ Len(rows) = Cardinality(ChildPositions(Items, p))
    /\ \A i \in ChildPositions(Items, p) : \E k \in DOMAIN rows : rows[k] = Items[i]
    /\ \A k \in DOMAIN rows : rows[k].parentId = p
    /\ \A j, k \in DOMAIN rows : j < k => rows[j].order <= rows[k].order

\* C27: in every state getItemChildren(p) is exactly the items whose
\* parentId is p, sorted ascending by order, and its rows do not depend
\* on what any children list holds.
C27_ChildrenFromLinks ==
    \A p \in 0..MaxItems :
        /\ RowsOfParent(getItemChildren(data, p), p)
        /\ RowIds(getItemChildren(WithoutLists(data), p))
               = RowIds(getItemChildren(data, p))

\* a container with two children whose children list is not the list
\* of their ids
C27_Witness ==
    \E k \in DOMAIN Items :
        /\ IsContainer(Items[k])
        /\ Len(getItemChildren(data, Items[k].id)) = 2
        /\ Items[k].children # RowIds(getItemChildren(data, Items[k].id))

\* the children of item p that carry a block id
BlockChildren(items, p) ==
    {i \in ChildPositions(items, p) : items[i].blockId # Null}

\* C25: after a synchronization of the query folder, whatever the result
\* list was, no two children of the query folder carry the same blockId.
C25_OneChildPerBlock ==
    last.op = "updateQueryBlockChildren"
        => \A i, j \in BlockChildren(Items, QueryFolderId) :
               Items[i].blockId = Items[j].blockId => i = j

RECURSIVE FirstOccurrences(_)
\* the list without the later occurrences of an entry
FirstOccurrences(ids) ==
    IF ids = <<>> THEN <<>>
    ELSE LET front == FirstOccurrences(SubSeq(ids, 1, Len(ids) - 1))
         IN IF ids[Len(ids)] \in Range(front) THEN front
            ELSE Append(front, ids[Len(ids)])

\* the blockId of each row, Null for a row that has none
BlockIdsOf(rows) == [k \in DOMAIN rows |-> rows[k].blockId]

\* C23: after a synchronization on a non-empty result list R the rows of
\* getItemChildren(query folder) are one child per block id of R, in the
\* order of R, and nothing else.
C23_ChildrenFollowResults ==
    (last.op = "updateQueryBlockChildren" /\ last.ids # <<>>)
        => BlockIdsOf(getItemChildren(data, QueryFolderId)) = FirstOccurrences(last.ids)

(***************************************************************************)
(* The tree view refreshing a query folder whose rows the user has         *)
(* expanded and selected                                                   *)
(***************************************************************************)
\* FolderTreeRenderer.selectItem: the selection becomes the one item
R_selectItem(s, itemId, now) ==
    Answered(s, C_setSelectedItems(s.data, s.blob, <<itemId>>, now))

\* what a refresh met: the results of the refresh before it, if there was
\* one, and the children, expanded ids and selected ids it started from
Refreshed(before, d) ==
    [kind |-> "refresh",
     synced |-> before.kind = "refresh",
     results |-> IF before.kind = "refresh" THEN before.now ELSE <<>>,
     children |-> ChildrenOf(d, QueryFolderId),
     expanded |-> Range(d.settings.expandedItems),
     selected |-> Range(d.settings.selectedItems),
     now |-> <<>>]

Refresh ==
    /\ getItemById(data, QueryFolderId) # 0
    /\ \E results \in ResultLists :
          LET s == updateQueryBlockChildren(Run(data, blob, nextId), QueryFolderId,
                                            results, clock)
          IN Handled(s, Call("updateQueryBlockChildren", QueryFolderId, Null, results,
                             s.ret),
                     [Refreshed(kept, data) EXCEPT !.now = results])

SelectItem ==
    \E itemId \in KnownIds :
        /\ getItemById(data, itemId) # 0
        /\ LET s == R_selectItem(Run(data, blob, nextId), itemId, clock)
           IN Handled(s, Call("selectItem", itemId, Null, <<>>, s.ret), kept)

NextRefresh ==
    \/ Refresh
    \/ SelectItem
    \/ DropBlock
    \/ DragItem
    \/ CreateFolder
    \/ DeleteTreeItem

SpecRefresh == InitSync /\ [][NextRefresh]_vars

\* the children the refresh started from whose block is in the results of
\* this refresh and of the one before it
InBoth ==
    {c \in kept.children : c[2] \in Range(kept.results) \cap Range(last.ids)}

LegacyNotebooks ==
    {[id |-> 1, name |-> NameA, order |-> 0, docs |-> d.docs,
      documents |-> d.documents, modified |-> 0] :
        d \in {[docs |-> "absent", documents |-> <<>>],
               [docs |-> "list", documents |-> <<>>],
               [docs |-> "list", documents |-> <<2>>],
               [docs |-> "list", documents |-> <<2, 3>>]}}

\* the old schema's documents and folders, ids 2 and 3
LegacySecond ==
    {[id |-> 2, name |-> NameA, blockId |-> IF type = "folder" THEN Null ELSE 1,
      parentId |-> parentId, order |-> 0, type |-> type, kids |-> k.kids,
      children |-> k.children, modified |-> 0] :
        parentId \in {Null, 1},
        type \in {"document", "folder", "absent"},
        k \in {[kids |-> "absent", children |-> <<>>],
               [kids |-> "list", children |-> <<3>>]}}

LegacyThird ==
    {[id |-> 3, name |-> NameB, blockId |-> Null, parentId |-> parentId,
      order |-> 1, type |-> type, kids |-> "absent", children |-> <<>>,
      modified |-> 0] :
        parentId \in {1, 2}, type \in {"document", "absent"}}

LegacySettings ==
    {[expandedNotebooks |-> n, expandedFolders |-> f, selectedItems |-> s] :
        n \in {<<>>, <<1>>}, f \in {<<>>, <<2>>}, s \in {<<>>, <<3>>}}

\* a blob without a settings object is drawn once, not once per settings
LegacyHeads ==
    {[hasSettings |-> TRUE, settings |-> st] : st \in LegacySettings}
    \cup {[hasSettings |-> FALSE,
           settings |-> [expandedNotebooks |-> <<>>, expandedFolders |-> <<>>,
                         selectedItems |-> <<>>]]}

LegacyBlobs ==
    {[kind |-> "legacy", notebooks |-> n, documents |-> d,
      hasSettings |-> h.hasSettings, settings |-> h.settings] :
        n \in {<<>>} \cup {<<a>> : a \in LegacyNotebooks},
        d \in {<<>>} \cup {<<a>> : a \in LegacySecond}
                     \cup {<<a, b>> : a \in LegacySecond, b \in LegacyThird},
        h \in LegacyHeads}

\* what the load read and the writes it started that have not settled
Loaded(from, readable, writes) ==
    [kind |-> "load", from |-> from, readable |-> readable, writes |-> writes]

Unsettled == IF kept.kind = "load" THEN kept.writes ELSE {}

InitLoad ==
    /\ blob \in {AbsentBlob, GarbageBlob, EmptyClosedBlob} \cup LegacyBlobs
    /\ data = NullData
    /\ nextId = 1
    /\ calls = 0
    /\ clock = 0
    /\ last = NoCall
    /\ heard = <<>>
    /\ Idle

\* "this.saveData(newData).catch(...)": saveData stamps the items and calls
\* setData before migrateFromOldFormat returns, and nobody awaits it; the
\* host has the text stored by the time loadData returns (landed) or not yet
MigrationSave(sv, landed) ==
    /\ data' = sv.data
    /\ blob' = IF landed THEN sv.blob ELSE blob
    /\ kept' = Loaded(blob, TRUE, IF landed THEN Unsettled ELSE Unsettled \cup {sv.blob})
    /\ last' = Call("loadData", Null, Null, <<>>, "migrated")

LoadReturns(readable) ==
    /\ data' = loadDataOn(blob, readable)
    /\ blob' = blob
    /\ kept' = Loaded(blob, readable, Unsettled)
    /\ last' = Call("loadData", Null, Null, <<>>,
                    IF readable /\ blob.kind = "json" THEN "tree" ELSE "default")

LoadData ==
    /\ calls < MaxCalls
    /\ calls' = calls + 1
    /\ \E readable \in BOOLEAN, landed \in BOOLEAN :
          IF readable /\ blob.kind = "legacy"
          THEN MigrationSave(saveData(loadData(blob), clock), landed)
          ELSE LoadReturns(readable)
    /\ UNCHANGED <<nextId, clock, heard, pc>>

\* the host stores a text a saveData handed to setData
SetDataResolves ==
    /\ \E text \in Unsettled :
          /\ blob' = text
          /\ kept' = [kept EXCEPT !.writes = @ \ {text}]
    /\ UNCHANGED <<data, nextId, calls, clock, last, heard, pc>>

\* setData rejects: saveData's catch logs it and the stored blob stays
SetDataRejects ==
    /\ \E text \in Unsettled : kept' = [kept EXCEPT !.writes = @ \ {text}]
    /\ UNCHANGED <<blob, data, nextId, calls, clock, last, heard, pc>>

NextLoad ==
    \/ Tick
    \/ LoadData
    \/ SetDataResolves
    \/ SetDataRejects

SpecLoad == InitLoad /\ [][NextLoad]_vars

\* C28: loadData never throws, and from no blob or from one that cannot be
\* parsed it returns the empty default tree: no items, and settings with
\* expandedItems = [], selectedItems = [] and closedNotebooks = [].
C28_DefaultOnBadBlob ==
    last.op = "loadData"
        => /\ last.ret # "throws"
           /\ kept.from.kind \in {"absent", "garbage"}
                  => /\ data.kind = "tree"
                     /\ data.items = <<>>
                     /\ data.settings.expandedItems = <<>>
                     /\ data.settings.selectedItems = <<>>
                     /\ data.settings.closed = "list"
                     /\ data.settings.closedNotebooks = <<>>

\* the positions of the items that carry the id
Carrying(items, id) == {i \in DOMAIN items : items[i].id = id}

\* the one item carrying the id
TheItem(items, id) == items[CHOOSE i \in Carrying(items, id) : TRUE]

\* the blob the last load read
Legacy == kept.from

\* C29: loading a blob of the old schema gives one notebook item per old
\* notebook, at the root, with the old documents list as children; one item
\* per old document with the same id, parentId and order and of type
\* document or folder; expandedItems holding the ids of expandedNotebooks
\* and of expandedFolders; and no other item.
C29_MigrationKeepsEntries ==
    (last.op = "loadData" /\ last.ret = "migrated")
        => /\ Len(Items) = Len(Legacy.notebooks) + Len(Legacy.documents)
           /\ \A k \in DOMAIN Legacy.notebooks :
                  /\ Cardinality(Carrying(Items, Legacy.notebooks[k].id)) = 1
                  /\ TheItem(Items, Legacy.notebooks[k].id).type = "notebook"
                  /\ TheItem(Items, Legacy.notebooks[k].id).parentId = Null
                  /\ TheItem(Items, Legacy.notebooks[k].id).kids = "list"
                  /\ TheItem(Items, Legacy.notebooks[k].id).children
                         = Legacy.notebooks[k].documents
           /\ \A k \in DOMAIN Legacy.documents :
                  /\ Cardinality(Carrying(Items, Legacy.documents[k].id)) = 1
                  /\ TheItem(Items, Legacy.documents[k].id).parentId
                         = Legacy.documents[k].parentId
                  /\ TheItem(Items, Legacy.documents[k].id).order
                         = Legacy.documents[k].order
                  /\ TheItem(Items, Legacy.documents[k].id).type \in {"document", "folder"}
                  /\ Legacy.documents[k].type # "absent"
                         => TheItem(Items, Legacy.documents[k].id).type
                                = Legacy.documents[k].type
           /\ Range(data.settings.expandedItems)
                  = IF Legacy.hasSettings
                    THEN Range(Legacy.settings.expandedNotebooks)
                             \cup Range(Legacy.settings.expandedFolders)
                    ELSE {}

\* a migration of a notebook with two documents, one of them without a
\* type, under settings that expand the notebook and a folder
C29_Witness ==
    /\ last.op = "loadData"
    /\ last.ret = "migrated"
    /\ Len(Legacy.notebooks) = 1
    /\ Len(Legacy.documents) = 2
    /\ Legacy.notebooks[1].documents = <<2, 3>>
    /\ \E k \in DOMAIN Legacy.documents : Legacy.documents[k].type = "absent"
    /\ Legacy.hasSettings
    /\ Legacy.settings.expandedNotebooks # <<>>
    /\ Legacy.settings.expandedFolders # <<>>

\* C30: when loadData returns from migrating a blob of the old schema, the
\* stored blob is already the migrated tree of the new schema.
C30_MigrationStored ==
    [][(Called("loadData") /\ last'.ret = "migrated")
           => (blob'.kind = "json" /\ blob' = Stringify(data'))]_vars

\* the ids of the notebooks of the tree
NotebookIds(items) == {items[i].id : i \in {j \in DOMAIN items : items[j].type = "notebook"}}

\* C34: ensureFolder leaves a notebook a notebook, and no call other than
\* createItem and deleteItem changes which items are notebooks.
C34_NotebooksStayNotebooks ==
    [][(calls' = calls + 1 /\ last'.op \notin {"createItem", "deleteItem"})
           => NotebookIds(Items') = NotebookIds(Items)]_vars

\* the item of the tree after the step that carries the id of items[i]
Later(i) == Items'[FindIdx(Items', Items[i].id)]

\* C39: reorderItems(parentId, orderedIds) changes no parentId, and changes
\* the order of no item whose parentId is not parentId, named in orderedIds
\* or not.
C39_ReorderFrame ==
    [][Called("reorderItems")
           => \A i \in DOMAIN Items :
                  /\ FindIdx(Items', Items[i].id) # 0
                  /\ Later(i).parentId = Items[i].parentId
                  /\ Items[i].parentId # last'.parent
                         => Later(i).order = Items[i].order]_vars

\* C36: deleteItem(id) of an existing id ends, returns true, and the item is
\* no longer in the tree.
C36_DeleteAlwaysWorks ==
    [][(Called("deleteItem") /\ FindIdx(Items, last'.id) # 0)
           => (last'.ret = "true" /\ FindIdx(Items', last'.id) = 0)]_vars

(***************************************************************************)
(* The store over three root notebooks, some of them closed, whose root    *)
(* rows are sorted by name and dragged                                     *)
(***************************************************************************)
RootNotebook(id, name) ==
    [id |-> id, name |-> name, blockId |-> Null, parentId |-> Null, order |-> id - 1,
     type |-> "notebook", kids |-> "list", children |-> <<>>, modified |-> 0]

ThreeNotebooks ==
    Tree(<<RootNotebook(1, NameB), RootNotebook(2, NameA), RootNotebook(3, NameA)>>,
         [DefaultSettings EXCEPT !.closed = "list"])

InitClosed ==
    /\ blob = Stringify(ThreeNotebooks)
    /\ data = ThreeNotebooks
    /\ nextId = 4
    /\ calls = 0
    /\ clock = 0
    /\ last = NoCall
    /\ heard = <<>>
    /\ Idle

\* a root row dropped before or after another root row
DragRoot ==
    \E draggedId \in KnownIds, targetId \in KnownIds, insertIntent \in {"before", "after"} :
        /\ draggedId # targetId
        /\ LET s == reorderRootItems(Run(data, blob, nextId), draggedId, targetId,
                                     insertIntent, clock)
           IN Handled(s, Call("reorderRootItems", draggedId, Null, <<>>, s.ret), kept)

NextClosed ==
    \/ CloseNotebook
    \/ RestoreNotebook
    \/ NaturalSortChildren
    \/ DragRoot

SpecClosed == InitClosed /\ [][NextClosed]_vars

\* the items at root, closed notebooks included
RootPositions(items) == {i \in DOMAIN items : items[i].parentId = Null}

\* C35: after naturalSortChildren(null) or a reorder of the root rows while
\* a notebook is closed, no two root items, closed notebooks included, have
\* the same order value.
C35_RootOrdersDistinct ==
    (/\ \/ last.op = "naturalSortChildren" /\ last.parent = Null
        \/ last.op = "reorderRootItems"
     /\ last.ret = "true"
     /\ getClosedNotebooks(data) # <<>>)
        => \A i, j \in RootPositions(Items) : Items[i].order = Items[j].order => i = j

(***************************************************************************)
(* The calls that patch the snapshot before they write, under a host whose *)
(* writes can throw, on a store holding a notebook and a document          *)
(***************************************************************************)
\* setExpandedState and setSelectedItems under a write that works (up) or
\* throws: the snapshot d1 is patched before saveSettings is called
PatchedOn(d1, b, now, up) ==
    IF up THEN Faulty(SaveSnapshotSettings(d1, b, now), 0)
    ELSE Faulty(SettingsSaved(d1, NotSaved(b)), 1)

H_setExpandedState(d, b, ids, now, up) ==
    IF d.kind = "null" THEN Faulty(Quiet(d, b, "false"), 0)
    ELSE PatchedOn([d EXCEPT !.settings.expandedItems = ids], b, now, up)

H_setSelectedItems(d, b, ids, now, up) ==
    IF d.kind = "null" THEN Faulty(Quiet(d, b, "false"), 0)
    ELSE PatchedOn([d EXCEPT !.settings.selectedItems = ids], b, now, up)

NotebookAndDocument ==
    Tree(<<RootNotebook(1, NameA),
           [id |-> 2, name |-> NameB, blockId |-> 1, parentId |-> Null, order |-> 1,
            type |-> "document", kids |-> "absent", children |-> <<>>,
            modified |-> 0]>>,
         [DefaultSettings EXCEPT !.closed = "list"])

InitPatch ==
    /\ blob = Stringify(NotebookAndDocument)
    /\ data = NotebookAndDocument
    /\ nextId = 3
    /\ calls = 0
    /\ clock = 0
    /\ last = NoCall
    /\ heard = <<>>
    /\ kept = Host("ok", "true", 0)
    /\ pc = "store"

HostSetExpandedState ==
    /\ \E ids \in ShortLists, up \in BOOLEAN :
          HostReturns(H_setExpandedState(data, blob, ids, clock, up),
                      "setExpandedState", Null, Null, ids)
    /\ UNCHANGED nextId

HostSetSelectedItems ==
    /\ \E ids \in ShortLists, up \in BOOLEAN :
          HostReturns(H_setSelectedItems(data, blob, ids, clock, up),
                      "setSelectedItems", Null, Null, ids)
    /\ UNCHANGED nextId

NextPatch ==
    \/ HostTick
    \/ HostEnsureFolder
    \/ HostCloseNotebook
    \/ HostRestoreNotebook
    \/ HostSetExpandedState
    \/ HostSetSelectedItems

SpecPatch == InitPatch /\ [][NextPatch]_vars

PatchingCalls ==
    {"closeNotebook", "restoreNotebook", "ensureFolder", "setExpandedState",
     "setSelectedItems"}

\* the type of each item, by id
TypesOf(items) == {<<items[i].id, items[i].type>> : i \in DOMAIN items}

\* C37: when closeNotebook, restoreNotebook, ensureFolder, setExpandedState
\* or setSelectedItems returns false because the write threw, the settings
\* and the item types of the snapshot are what they were before the call.
C37_FailedPatchRolledBack ==
    [][(/\ calls' = calls + 1
        /\ last'.op \in PatchingCalls
        /\ last'.ret = "false"
        /\ kept'.threw > 0)
           => (/\ data'.settings = data.settings
               /\ TypesOf(Items') = TypesOf(Items))]_vars

(***************************************************************************)
(* FolderTreePersistence's mutations under a host whose read can throw.    *)
(* Every mutation starts with loadData, whose catch turns a read that      *)
(* threw into the default tree: the mutation goes on as it does on no blob *)
(***************************************************************************)
\* the blob whose loadData is what the mutation's loadData returned
ReadBy(b, readable) == IF readable THEN b ELSE AbsentBlob

\* what a mutation met and left: whether its read worked, and the ids
\* stored before it
Mutated(readable, b) ==
    [kind |-> "read", readable |-> readable, before |-> ItemIds(loadData(b).items)]

InitRead ==
    /\ blob = Stringify(NotebookAndDocument)
    /\ data = NullData
    /\ nextId = 3
    /\ calls = 0
    /\ clock = 0
    /\ last = NoCall
    /\ heard = <<>>
    /\ kept = Mutated(TRUE, blob)
    /\ pc = "store"

\* the mutation returned: wrote is the text it stored, if it stored one
Persisted(wrote, text, readable, call) ==
    /\ calls < MaxCalls
    /\ calls' = calls + 1
    /\ blob' = IF wrote THEN text ELSE blob
    /\ kept' = Mutated(readable, blob)
    /\ last' = call
    /\ UNCHANGED <<data, clock, heard, pc>>

PersistCreateItem ==
    /\ nextId <= MaxItems
    /\ \E parentId \in {Null} \cup KnownIds, readable \in BOOLEAN :
          LET r == P_createItem(ReadBy(blob, readable), NameA, "document", Null,
                                parentId, nextId, clock)
          IN Persisted(TRUE, r.blob, readable,
                       Call("createItem", nextId, parentId, <<>>, "item"))
    /\ nextId' = nextId + 1

PersistDeleteItem ==
    /\ \E id \in KnownIds, readable \in BOOLEAN :
          LET r == P_deleteItem(ReadBy(blob, readable), id, clock)
          IN Persisted(r.ok, r.blob, readable,
                       Call("deleteItem", id, Null, <<>>, Bool(r.ok)))
    /\ UNCHANGED nextId

PersistRenameItem ==
    /\ \E id \in KnownIds, readable \in BOOLEAN :
          LET r == P_renameItem(ReadBy(blob, readable), id, NameB, clock)
          IN Persisted(r.ok, r.blob, readable,
                       Call("renameItem", id, Null, <<>>, Bool(r.ok)))
    /\ UNCHANGED nextId

PersistMoveItem ==
    /\ \E id \in KnownIds, newParentId \in {Null} \cup KnownIds, readable \in BOOLEAN :
          LET r == P_moveItem(ReadBy(blob, readable), id, newParentId, NoIndex, clock)
          IN Persisted(r.ok, r.blob, readable,
                       Call("moveItem", id, newParentId, <<>>, Bool(r.ok)))
    /\ UNCHANGED nextId

PersistReorderItems ==
    /\ \E parentId \in {Null} \cup KnownIds, itemIds \in ListsOver(KnownIds),
          readable \in BOOLEAN :
          LET r == P_reorderItems(ReadBy(blob, readable), parentId, itemIds, clock)
          IN Persisted(r.ok, r.blob, readable,
                       Call("reorderItems", Null, parentId, itemIds, Bool(r.ok)))
    /\ UNCHANGED nextId

PersistSaveSettings ==
    /\ \E ids \in ShortLists, readable \in BOOLEAN :
          LET r == P_saveSettings(ReadBy(blob, readable),
                                  [DefaultSettings EXCEPT !.expandedItems = ids], clock)
          IN Persisted(r.ok, r.blob, readable,
                       Call("saveSettings", Null, Null, ids, Bool(r.ok)))
    /\ UNCHANGED nextId

NextRead ==
    \/ PersistCreateItem
    \/ PersistDeleteItem
    \/ PersistRenameItem
    \/ PersistMoveItem
    \/ PersistReorderItems
    \/ PersistSaveSettings

SpecRead == InitRead /\ [][NextRead]_vars

\* C31: a mutation whose read of the host store threw, issued while a tree
\* with items is stored, leaves every stored item in the stored blob.
C31_FailedReadKeepsItems ==
    (calls > 0 /\ ~kept.readable /\ kept.before # {})
        => kept.before \subseteq ItemIds(loadData(blob).items)

(***************************************************************************)
(* Every drop the tree view takes: on an item (handleDrop), on the         *)
(* children area of an item (createChildrenElement) and on the blank area  *)
(* of the root level (setupRootDrop).                                      *)
(***************************************************************************)
\* generateId(type) starts the id with the type the item was created with and
\* ensureFolder keeps the id; over this store the documents are the items the
\* view made from a block of the editor, all others were made as folders
BornAs(it) == IF it.blockId \in BlockIds THEN "document" ELSE "folder"

\* FolderTreeCore.getDocumentById: the position of the item, 0 for undefined
getDocumentById(d, id) ==
    IF getItemById(d, id) = 0 THEN 0
    ELSE IF d.items[getItemById(d, id)].type \in {"document", "folder"}
    THEN getItemById(d, id)
    ELSE 0

\* "if (draggedDoc && draggedDoc.parentId !== parentId)
\*      ok = await this.core.moveDocument(dataText, parentId)"
MovedUnder(s, x, dataText, parentId, now) ==
    IF x = 0 THEN s
    ELSE IF s.data.items[x].parentId = parentId THEN s
    ELSE Answered(s, C_moveItem(s.data, s.blob, dataText, parentId, NoIndex, now))

\* childrenEl.ondrop; dataText is Null when the drag carries no text, and
\* then blockId is the block the editor is dragging
childrenOnDrop(s, dataText, blockId, parentId, now) ==
    IF dataText = Null THEN createDocumentFromBlock(s, blockId, parentId, now)
    ELSE IF getItemById(s.data, dataText) = 0 THEN s
    ELSE IF BornAs(s.data.items[getItemById(s.data, dataText)]) # "document" THEN s
    ELSE MovedUnder(s, getDocumentById(s.data, dataText), dataText, parentId, now)

\* the drop listener of the content area, on its blank part: a block becomes
\* a root document, an item made as a document or a folder moves to the root
rootOnDrop(s, dataText, blockId, now) ==
    IF dataText = Null THEN createDocumentFromBlock(s, blockId, Null, now)
    ELSE IF getItemById(s.data, dataText) = 0 THEN s
    ELSE MovedUnder(s, getDocumentById(s.data, dataText), dataText, Null, now)

DropOnChildren ==
    \E dataText \in KnownIds \cup {Null}, blockId \in BlockIds, parentId \in KnownIds :
        /\ getItemById(data, parentId) # 0
        /\ IsContainer(data.items[getItemById(data, parentId)])
        /\ dataText = Null \/ blockId = 1
        /\ LET s == childrenOnDrop(Run(data, blob, nextId), dataText, blockId,
                                   parentId, clock)
           IN Handled(s, Call("childrenDrop", dataText, parentId, <<>>, s.ret), kept)

DropOnBlank ==
    \E dataText \in KnownIds \cup {Null}, blockId \in BlockIds :
        /\ dataText = Null \/ blockId = 1
        /\ LET s == rootOnDrop(Run(data, blob, nextId), dataText, blockId, clock)
           IN Handled(s, Call("rootDrop", dataText, Null, <<>>, s.ret), kept)

NextDrop ==
    \/ DropBlock
    \/ DragItem
    \/ CreateFolder
    \/ DropOnChildren
    \/ DropOnBlank

SpecDrop == InitSync /\ [][NextDrop]_vars

\* the item a dragged tree item would get as its parent: the target's parent
\* with an insert intent, else the item dropped on or into
DropParent ==
    IF last'.op \in {"before", "after"} THEN ParentOf(Items, last'.parent)
    ELSE last'.parent

ItemDropped ==
    /\ calls' = calls + 1
    /\ last'.op \in {"before", "after", "none", "childrenDrop", "rootDrop"}
    /\ FindIdx(Items, last'.id) # 0

\* C32: no drop of the tree view makes an item its own parent or ancestor:
\* from a tree without a cycle every drop of an item leads to a tree without
\* a cycle, and a drop that would put the item under itself or under one of
\* its descendants leaves the items as they were.
C32_DropsMakeNoCycle ==
    [][(ItemDropped /\ C2_Acyclic)
           => /\ C2_Acyclic'
              /\ (DropParent = last'.id \/ HasAncestor(Items, DropParent, last'.id))
                     => Items' = Items]_vars

\* the ids of the siblings of the item id as the tree view lists them:
\* getRootItems() at the root level, getItemChildren(parent) below it
SiblingIdsOf(d, id) ==
    IF ParentOf(d.items, id) = Null THEN IdsOf(getRootItems(d))
    ELSE IdsOf(getItemChildren(d, ParentOf(d.items, id)))

Beside(ids, draggedId, targetId, insertIntent) ==
    /\ IndexOf(ids, draggedId) # -1
    /\ IndexOf(ids, targetId) # -1
    /\ IndexOf(ids, draggedId)
           = IndexOf(ids, targetId) + (IF insertIntent = "before" THEN -1 ELSE 1)

\* C33: after a drop of item D on item T with insert intent 'before' or
\* 'after' that reported success, D is the sibling immediately before,
\* respectively immediately after, T in the order of T's parent.
C33_DroppedBesideTarget ==
    (last.op \in {"before", "after"} /\ last.ret = "true")
        => Beside(SiblingIdsOf(data, last.parent), last.id, last.parent, last.op)

(***************************************************************************)
(* A query block dropped on the tree: createDocumentFromQueryBlock makes   *)
(* the query folder, marks it in the stored blob, fills it and expands.    *)
(***************************************************************************)
\* "dataItem.isQueryBlock = true; dataItem.queryBlockId = queryBlockId"
Marked(it, queryBlockId) ==
    [id |-> it.id, name |-> it.name, blockId |-> it.blockId,
     parentId |-> it.parentId, order |-> it.order, type |-> it.type,
     kids |-> it.kids, children |-> it.children, modified |-> it.modified,
     isQueryBlock |-> TRUE, queryBlockId |-> queryBlockId]

\* the object persistence.loadData() gave is changed and saved; the store's
\* snapshot is not touched
MarkLoaded(s, d, x, queryBlockId, now) ==
    IF x = 0 THEN s
    ELSE [s EXCEPT !.blob = saveData([d EXCEPT !.items[x] = Marked(@, queryBlockId)],
                                     now).blob]

markItemAsQueryBlock(s, itemId, queryBlockId, now) ==
    IF getItemById(s.data, itemId) = 0 THEN s
    ELSE MarkLoaded(s, loadData(s.blob), FindIdx(loadData(s.blob).items, itemId),
                    queryBlockId, now)

\* "if (targetId) expand(targetId)", then the query folder is expanded
ExpandedBoth(s, targetId, folderId, now) ==
    Expanded(IF targetId # Null THEN Expanded(s, targetId, now) ELSE s, folderId, now)

\* after createItem: null when it made nothing, else mark, fill, expand
QueryFolderMade(s, folderId, queryBlockId, targetId, results, now) ==
    IF s.ret # "item" THEN s
    ELSE [ExpandedBoth(updateQueryBlockChildren(
                           markItemAsQueryBlock(s, folderId, queryBlockId, now),
                           folderId, results, now),
                       targetId, folderId, now)
          EXCEPT !.ret = "item"]

createDocumentFromQueryBlock(s, queryBlockId, targetId, results, now) ==
    QueryFolderMade(ItemCreated(s, C_createItem(s.data, s.blob, NameA, "folder",
                                                queryBlockId, targetId, s.nextId, now)),
                    s.nextId, queryBlockId, targetId, results, now)

InitMark ==
    /\ blob = EmptyClosedBlob
    /\ data = loadData(EmptyClosedBlob)
    /\ nextId = 1
    /\ calls = 0
    /\ clock = 0
    /\ last = NoCall
    /\ heard = <<>>
    /\ Idle

DropQueryBlock ==
    \E targetId \in KnownIds \cup {Null}, results \in ResultLists :
        /\ targetId = Null
             \/ /\ getItemById(data, targetId) # 0
                /\ IsContainer(data.items[getItemById(data, targetId)])
        /\ LET s == createDocumentFromQueryBlock(Run(data, blob, nextId), QueryBlockId,
                                                 targetId, results, clock)
           IN Handled(s, Call("dropQueryBlock", nextId, targetId, results, s.ret), kept)

NextMark ==
    \/ DropQueryBlock
    \/ DeleteItem
    \/ RenameItem
    \/ MoveItem
    \/ EnsureFolder
    \/ SetExpandedState

SpecMark == InitMark /\ [][NextMark]_vars

IsMarked(it) ==
    /\ "isQueryBlock" \in DOMAIN it
    /\ "queryBlockId" \in DOMAIN it
    /\ it.isQueryBlock
    /\ it.queryBlockId = it.blockId

\* the positions of the marked items of a stored blob
MarkedIn(b) == {i \in DOMAIN loadData(b).items : IsMarked(loadData(b).items[i])}

StillMarked(b, id) ==
    FindIdx(loadData(b).items, id) # 0
        => FindIdx(loadData(b).items, id) \in MarkedIn(b)

\* C38: a folder that carries isQueryBlock and queryBlockId in the stored
\* blob carries both after every later call that does not delete it.
C38_MarkKept ==
    [][\A i \in MarkedIn(blob) : StillMarked(blob', loadData(blob).items[i].id)]_vars

====
